---- MODULE Spec2Model ----
(***************************************************************************)
(* Guitar pedal component organizer: label generation (generate_labels.py) *)
(* as a state machine.  Text is handled character by character (Len,       *)
(* SubSeq and \o on strings), so that formatting, parsing, searching and   *)
(* sorting of text are computed the way the Python code computes them.     *)
(***************************************************************************)
EXTENDS Integers, Sequences, FiniteSets, TLC

VARIABLES
    u1_drawer_num,    \* LabelGenerator.u1_drawer_num   (S counter)
    u2_large_num,     \* LabelGenerator.u2_large_num    (L counter)
    u2_tall_num,      \* LabelGenerator.u2_tall_num     (T counter)
    u2_medium_num,    \* LabelGenerator.u2_medium_num   (M counter)
    labels,           \* LabelGenerator.labels
    ret,              \* the last get_next_*_pair call: family, counter before, ids returned
    issued,           \* per family, the ids returned so far, in order, with the half they were returned as
    pc,               \* main(): the section about to run
    warning,          \* main(): whether the medium-drawer WARNING line was printed
    all_parts,        \* main(): the parts fetched from the catalog, [pk, name, path]
    reference,        \* ComponentOrganizer.reference: the reference catalog
    resistors,        \* main(): (value, display, part) of the resistors
    resistor_groups,  \* main(): the groups of resistors
    capacitors,       \* main(): (value, display, cap_type, part) of the capacitors
    cap_groups,       \* main(): cap_type -> the groups of capacitors
    diode_labels,     \* main(): the cleaned names of the diodes
    diode_groups,     \* main(): the groups of diodes
    trans_by_type,    \* main(): (type, cleaned names) in the order the types came up
    trans_groups,     \* main(): (type, groups) of the transistors, same order
    ic_labels,        \* main(): the names of the ICs
    ic_groups,        \* main(): the groups of ICs
    all_pots_values,  \* main(): the values of the potentiometers
    pot_groups,       \* main(): the groups of potentiometers
    parsed,           \* the calls of a value parser so far: the name given, the tuple returned
    component_locations,  \* update_inventree_locations: component -> its (unit, drawer, compartment) list
    server_parts,         \* the catalog server: the parts, [pk, name, default_location]
    stock_locations,      \* the catalog server: the pathstrings of the stock locations
    next_component,       \* the position of the loop over component_locations.items()
    update_count,         \* update_inventree_locations.main
    error_count,          \* update_inventree_locations.main
    parts_without_location,   \* update_missing_locations.main
    matched_count,        \* update_missing_locations.main
    updated_count,        \* update_missing_locations.main
    failed_matches,       \* update_missing_locations.main
    matched_part,         \* update_missing_locations.main: what find_best_match returned last
    first_run,            \* the sheet and the counters an earlier run of main() ended with
    server_locations,     \* the catalog server: the stock locations, [pk, name, parent]
    location_cache,       \* InventreeLocationUpdater.location_cache, in insertion order
    calls,                \* the calls of _get_or_create_location so far and what each returned
    catalog,              \* the catalog server: the parts, [pk, name, active, default_location]
    stock_items,          \* the catalog server: the stock items, [pk, part, location]
    mover_parts,          \* move_stock_to_locations.main: parts, the parts with a default location
    part_no,              \* move_stock_to_locations.main: the position of the loop over parts
    moved_count,          \* move_stock_to_locations.main
    already_correct,      \* move_stock_to_locations.main
    mover_errors,         \* move_stock_to_locations.main: error_count
    mover_pc,             \* move_stock_to_locations.main: where the run is
    pass_log              \* the runs of the stock mover: the stock each started with, what it patched

allocVars == <<u1_drawer_num, u2_large_num, u2_tall_num, u2_medium_num, labels, ret, issued>>

mainVars == <<pc, warning>>

\* what the runs of the parsers alone keep
\* the catalog server and the two location updaters
serverVars == <<server_parts, stock_locations>>

passVars == <<next_component, update_count, error_count, parts_without_location,
              matched_count, updated_count, failed_matches, matched_part>>

locVars == <<component_locations, serverVars, passVars>>

\* the stock locations as _get_or_create_location sees them
storeVars == <<server_locations, location_cache, calls>>

\* the stock mover and the server it talks to
moverVars == <<catalog, stock_items, mover_parts, part_no, moved_count, already_correct,
               mover_errors, mover_pc, pass_log>>

apiVars == <<storeVars, moverVars>>

toolVars == <<parsed, locVars, first_run, apiVars>>

famVars ==
    <<all_parts, reference, resistors, resistor_groups, capacitors, cap_groups,
      diode_labels, diode_groups, trans_by_type, trans_groups, ic_labels, ic_groups,
      all_pots_values, pot_groups, toolVars>>

vars == <<allocVars, mainVars, famVars>>

(***************************************************************************)
(* Text                                                                    *)
(***************************************************************************)
EmptyStr == ""

\* s[i-1] of Python: the i-th character
Ch(s, i) == SubSeq(s, i, i)

\* s[i-1:] of Python
From(s, i) == SubSeq(s, i, Len(s))

Digits == "0123456789"

LowerLetters == "abcdefghijklmnopqrstuvwxyz"

UpperLetters == "ABCDEFGHIJKLMNOPQRSTUVWXYZ"

\* the characters of names and keys in code point order, the order sorted()
\* compares by
CodePoints ==
    " #%&()*+,-./0123456789:;<=>?@ABCDEFGHIJKLMNOPQRSTUVWXYZ[]^_abcdefghijklmnopqrstuvwxyz{|}~µΩ"

\* str.find(c) + 1 for a character: its first position, 0 when absent
IndexIn(c, str) ==
    IF \E k \in 1..Len(str) : Ch(str, k) = c
    THEN CHOOSE k \in 1..Len(str) : Ch(str, k) = c /\ \A j \in 1..(k - 1) : Ch(str, j) # c
    ELSE 0

Ord(c) == IndexIn(c, CodePoints)

IsDigit(c) == IndexIn(c, Digits) > 0

\* \s of a regular expression (the names hold no other white space than blanks)
IsSpace(c) == c = " "

UpperChar(c) == IF IndexIn(c, LowerLetters) > 0 THEN Ch(UpperLetters, IndexIn(c, LowerLetters)) ELSE c

LowerChar(c) == IF IndexIn(c, UpperLetters) > 0 THEN Ch(LowerLetters, IndexIn(c, UpperLetters)) ELSE c

\* str.upper() and str.lower() (of ASCII text)
RECURSIVE Upper(_)
Upper(s) == IF s = "" THEN "" ELSE UpperChar(Ch(s, 1)) \o Upper(From(s, 2))

RECURSIVE Lower(_)
Lower(s) == IF s = "" THEN "" ELSE LowerChar(Ch(s, 1)) \o Lower(From(s, 2))

\* s.startswith(sub, i-1)
StartsAt(s, i, sub) == i + Len(sub) - 1 <= Len(s) /\ SubSeq(s, i, i + Len(sub) - 1) = sub

\* sub in s
Contains(sub, s) == \E i \in 1..(Len(s) - Len(sub) + 1) : StartsAt(s, i, sub)

\* s.replace(old, new): every occurrence, left to right, not overlapping
RECURSIVE Replace(_, _, _)
Replace(s, old, new) ==
    IF s = "" THEN ""
    ELSE IF StartsAt(s, 1, old) THEN new \o Replace(From(s, Len(old) + 1), old, new)
    ELSE Ch(s, 1) \o Replace(From(s, 2), old, new)

\* s.strip()
RECURSIVE LStrip(_)
LStrip(s) == IF s # "" /\ IsSpace(Ch(s, 1)) THEN LStrip(From(s, 2)) ELSE s

RECURSIVE RStrip(_)
RStrip(s) == IF s # "" /\ IsSpace(Ch(s, Len(s))) THEN RStrip(SubSeq(s, 1, Len(s) - 1)) ELSE s

Strip(s) == RStrip(LStrip(s))

\* a < b for strings, as sorted() compares them
RECURSIVE StrLess(_, _)
StrLess(a, b) ==
    IF b = "" THEN FALSE
    ELSE IF a = "" THEN TRUE
    ELSE IF Ch(a, 1) = Ch(b, 1) THEN StrLess(From(a, 2), From(b, 2))
    ELSE Ord(Ch(a, 1)) < Ord(Ch(b, 1))

\* str(n) of a natural number, as an f-string formats it
RECURSIVE Dec(_)
Dec(n) == IF n < 10 THEN Ch(Digits, n + 1) ELSE Dec(n \div 10) \o Ch(Digits, (n % 10) + 1)

DigitVal(c) == IndexIn(c, Digits) - 1

\* int(str) of a run of digits
RECURSIVE ParseDec(_)
ParseDec(str) ==
    IF str = "" THEN 0
    ELSE 10 * ParseDec(SubSeq(str, 1, Len(str) - 1)) + DigitVal(Ch(str, Len(str)))

\* f"{prefix}{n}"
DrawerId(prefix, n) == prefix \o Dec(n)

(***************************************************************************)
(* Numbers.  A float is kept exactly, as an integer count of 10^-FracDigits *)
(* (ohms or picofarads); the values drawn below are ones for which the     *)
(* float arithmetic of the code is exact as well.                          *)
(***************************************************************************)
FracDigits == 1       \* digits after the decimal point in the values drawn

RECURSIVE Pow10(_)
Pow10(k) == IF k = 0 THEN 1 ELSE 10 * Pow10(k - 1)

Scale == Pow10(FracDigits)

RECURSIVE Zeros(_)
Zeros(k) == IF k = 0 THEN "" ELSE "0" \o Zeros(k - 1)

\* float(value_str) of <digits>[.<digits>]
ToFloat(value_str) ==
    LET dot  == IndexIn(".", value_str)
        ip   == IF dot = 0 THEN value_str ELSE SubSeq(value_str, 1, dot - 1)
        fp   == IF dot = 0 THEN "" ELSE From(value_str, dot + 1)
    IN  ParseDec(ip) * Scale + ParseDec(SubSeq(fp \o Zeros(FracDigits), 1, FracDigits))

\* value == int(value)
IsWhole(v) == v % Scale = 0

RECURSIVE StripZeros(_)
StripZeros(s) == IF s # "" /\ Ch(s, Len(s)) = "0" THEN StripZeros(SubSeq(s, 1, Len(s) - 1)) ELSE s

\* f"{value}" of a float that is not whole: the shortest decimal that reads back
FloatStr(v) ==
    LET frac == Dec(v % Scale)
    IN  Dec(v \div Scale) \o "." \o StripZeros(Zeros(FracDigits - Len(frac)) \o frac)

\* f"{int(value)}" if value == int(value) else f"{value}"
NumberStr(v) == IF IsWhole(v) THEN Dec(v \div Scale) ELSE FloatStr(v)

(***************************************************************************)
(* Regular expressions of the value parsers                                *)
(***************************************************************************)
\* the first index at or after i that holds no digit (\d* from i)
RECURSIVE DigitsEnd(_, _)
DigitsEnd(s, i) == IF i <= Len(s) /\ IsDigit(Ch(s, i)) THEN DigitsEnd(s, i + 1) ELSE i

\* \s* from i
RECURSIVE SpacesEnd(_, _)
SpacesEnd(s, i) == IF i <= Len(s) /\ IsSpace(Ch(s, i)) THEN SpacesEnd(s, i + 1) ELSE i

\* (\d+\.?\d*) from the digit at i: the index after the match
NumberEnd(s, i) ==
    LET a == DigitsEnd(s, i)
    IN  DigitsEnd(s, IF a <= Len(s) /\ Ch(s, a) = "." THEN a + 1 ELSE a)

\* the position of the first digit, 0 when there is none
FirstDigit(s) ==
    IF \E i \in 1..Len(s) : IsDigit(Ch(s, i))
    THEN CHOOSE i \in 1..Len(s) : IsDigit(Ch(s, i)) /\ \A j \in 1..(i - 1) : ~IsDigit(Ch(s, j))
    ELSE 0

(***************************************************************************)
(* ComponentOrganizer: the value parsers and the grouper                   *)
(***************************************************************************)
\* re.search(r'(\d+\.?\d*)\s*([KMR]?)', name): the match starts at the first
\* digit, every later part of the pattern may be empty
ResistorMatch(name) ==
    LET i == FirstDigit(name)
        e == NumberEnd(name, i)
        u == SpacesEnd(name, e)
    IN  IF i = 0 THEN [found |-> FALSE, value_str |-> "", multiplier |-> ""]
        ELSE [found |-> TRUE,
              value_str |-> SubSeq(name, i, e - 1),
              multiplier |-> IF u <= Len(name) /\ Ch(name, u) \in {"K", "M", "R"}
                             THEN Ch(name, u) ELSE ""]

ParsedResistor(match) ==
    LET value == ToFloat(match.value_str)
    IN  IF match.multiplier = "K"
        THEN [value |-> value * 1000, display |-> match.value_str \o "K"]
        ELSE IF match.multiplier = "M"
        THEN [value |-> value * 1000000, display |-> match.value_str \o "M"]
        ELSE [value |-> value,
              display |-> IF value < 1000 * Scale THEN NumberStr(value) \o "R"
                          ELSE match.value_str]

parse_resistor_value(raw) ==
    LET name == Strip(Replace(Upper(raw), "OHM", ""))
        match == ResistorMatch(name)
    IN  IF ~match.found THEN [value |-> 0, display |-> name] ELSE ParsedResistor(match)

\* ([pnum]F) at u, ignoring case
CapUnitAt(s, u) ==
    /\ u + 1 <= Len(s)
    /\ LowerChar(Ch(s, u)) \in {"p", "n", "u", "m"}
    /\ LowerChar(Ch(s, u + 1)) = "f"

\* whether (\d+\.?\d*)\s*([pnum]F) matches from i
CapMatchAt(s, i) == IsDigit(Ch(s, i)) /\ CapUnitAt(s, SpacesEnd(s, NumberEnd(s, i)))

\* re.search(r'(\d+\.?\d*)\s*([pnum]F)', name, re.IGNORECASE): the leftmost match
CapacitorMatch(name) ==
    IF \E i \in 1..Len(name) : CapMatchAt(name, i)
    THEN LET i == CHOOSE k \in 1..Len(name) :
                      CapMatchAt(name, k) /\ \A j \in 1..(k - 1) : ~CapMatchAt(name, j)
             e == NumberEnd(name, i)
             u == SpacesEnd(name, e)
         IN  [found |-> TRUE, value_str |-> SubSeq(name, i, e - 1), unit |-> SubSeq(name, u, u + 1)]
    ELSE [found |-> FALSE, value_str |-> "", unit |-> ""]

CapTypeOf(name_lower) ==
    IF Contains("film", name_lower) THEN "film"
    ELSE IF Contains("electrolytic", name_lower) \/ Contains("elec", name_lower) THEN "electrolytic"
    ELSE "ceramic"

ParsedCapacitor(match, cap_type) ==
    LET value == ToFloat(match.value_str)
        unit_lower == Lower(match.unit)
        numeric_value == IF unit_lower = "pf" THEN value
                         ELSE IF unit_lower = "nf" THEN value * 1000
                         ELSE IF unit_lower = "uf" \/ unit_lower = "µf" THEN value * 1000000
                         ELSE value
    IN  [value |-> numeric_value,
         display |-> IF numeric_value < 1000 * Scale THEN NumberStr(value) \o "pF"
                     ELSE IF numeric_value < 1000000 * Scale THEN match.value_str \o "nF"
                     ELSE match.value_str \o "uF",
         cap_type |-> cap_type]

parse_capacitor_value(name) ==
    LET cap_type == CapTypeOf(Lower(name))
        match == CapacitorMatch(name)
    IN  IF ~match.found THEN [value |-> 0, display |-> name, cap_type |-> cap_type]
        ELSE ParsedCapacitor(match, cap_type)

\* sorted(items, key=lambda x: x[0]): stable, equal values keep their order
RECURSIVE InsertByValue(_, _)
InsertByValue(sorted, x) ==
    IF sorted = <<>> THEN <<x>>
    ELSE IF x.value < Head(sorted).value THEN <<x>> \o sorted
    ELSE <<Head(sorted)>> \o InsertByValue(Tail(sorted), x)

RECURSIVE SortedByValue(_)
SortedByValue(items) ==
    IF items = <<>> THEN <<>>
    ELSE InsertByValue(SortedByValue(SubSeq(items, 1, Len(items) - 1)), items[Len(items)])

\* sorted(keys) of a set of strings
RECURSIVE SortedStrings(_)
SortedStrings(keys) ==
    IF keys = {} THEN <<>>
    ELSE LET first == CHOOSE a \in keys : \A b \in keys \ {a} : StrLess(a, b)
         IN  <<first>> \o SortedStrings(keys \ {first})

GroupSize == 4

\* variant: a last group of fewer than GroupSize is dropped
RECURSIVE ChunksFullOnly(_)
ChunksFullOnly(items) ==
    IF Len(items) < GroupSize THEN <<>>
    ELSE <<SubSeq(items, 1, GroupSize)>> \o ChunksFullOnly(From(items, GroupSize + 1))

\* [items[i:i+4] for i in range(0, len(items), 4)]
RECURSIVE Chunks(_)
Chunks(items) ==
    IF items = <<>> THEN <<>>
    ELSE IF Len(items) <= GroupSize THEN <<items>>
    ELSE <<SubSeq(items, 1, GroupSize)>> \o Chunks(From(items, GroupSize + 1))

\* variant: every decade takes in its upper limit
DecadeOfInclusive(value) ==
    IF value <= 10 * Scale THEN "0.1-10"
    ELSE IF value <= 100 * Scale THEN "10-100"
    ELSE IF value <= 1000 * Scale THEN "100-1K"
    ELSE IF value <= 10000 * Scale THEN "1K-10K"
    ELSE IF value <= 100000 * Scale THEN "10K-100K"
    ELSE IF value <= 1000000 * Scale THEN "100K-1M"
    ELSE "1M+"

\* the decade of a value in ohms
DecadeOf(value) ==
    IF value < 10 * Scale THEN "0.1-10"
    ELSE IF value < 100 * Scale THEN "10-100"
    ELSE IF value < 1000 * Scale THEN "100-1K"
    ELSE IF value < 10000 * Scale THEN "1K-10K"
    ELSE IF value < 100000 * Scale THEN "10K-100K"
    ELSE IF value < 1000000 * Scale THEN "100K-1M"
    ELSE "1M+"

\* decades[decade]: the sorted resistors of one decade
DecadeItems(sorted_resistors, decade) ==
    SelectSeq(sorted_resistors, LAMBDA r : DecadeOf(r.value) = decade)

\* variant: the sorted list is cut into groups of 4 whatever the decades
GroupsAcrossDecades(sorted_resistors, keys) == Chunks(sorted_resistors)

RECURSIVE DecadeGroups(_, _)
DecadeGroups(sorted_resistors, keys) ==
    IF keys = <<>> THEN <<>>
    ELSE Chunks(DecadeItems(sorted_resistors, Head(keys)))
         \o DecadeGroups(sorted_resistors, Tail(keys))

group_resistors_by_decade(rs) ==
    LET sorted_resistors == SortedByValue(rs)
        decades == {DecadeOf(sorted_resistors[k].value) : k \in 1..Len(sorted_resistors)}
    IN  DecadeGroups(sorted_resistors, SortedStrings(decades))

CapTypes == <<"ceramic", "film", "electrolytic">>

\* by_type[cap_type]
OfType(caps, cap_type) == SelectSeq(caps, LAMBDA c : c.cap_type = cap_type)

\* variant: the capacitors are not split by type
GroupCapacitorsMixed(caps) ==
    [t \in {CapTypes[k] : k \in 1..Len(CapTypes)} |->
        IF OfType(caps, t) = <<>> THEN <<>> ELSE Chunks(SortedByValue(caps))]

\* cap_type -> groups; a type without capacitors has no key, here no group
group_capacitors_by_type_and_value(caps) ==
    [t \in {CapTypes[k] : k \in 1..Len(CapTypes)} |-> Chunks(SortedByValue(OfType(caps, t)))]

(***************************************************************************)
(* LabelGenerator: the drawer allocator                                    *)
(***************************************************************************)
Families == {"S", "L", "T", "M"}

LargeCap == 3
TallCap == 4
MediumCap == 16

\* a bounded family's pair: top always, bottom only while num + 1 <= cap
BoundedPair(prefix, num, cap) ==
    LET top    == DrawerId(prefix, num)
        bottom == IF num + 1 <= cap THEN DrawerId(prefix, num + 1) ELSE EmptyStr
    IN  [top |-> top, bottom |-> bottom,
         num |-> IF bottom # EmptyStr THEN num + 2 ELSE num + 1]

\* variants of the allocator with one slip each, used to test the properties below
BoundedPairStrict(prefix, num, cap) ==
    LET top    == DrawerId(prefix, num)
        bottom == IF num + 1 < cap THEN DrawerId(prefix, num + 1) ELSE EmptyStr
    IN  [top |-> top, bottom |-> bottom,
         num |-> IF bottom # EmptyStr THEN num + 2 ELSE num + 1]

SmallPairAdvanceOne(num) ==
    [top |-> DrawerId("S", num), bottom |-> DrawerId("S", num + 1), num |-> num + 1]

LargePairUncapped(num) ==
    [top |-> DrawerId("L", num), bottom |-> DrawerId("L", num + 1), num |-> num + 2]

MediumPairStrict(num) == BoundedPairStrict("M", num, MediumCap)

get_next_u1_drawer_pair(num) ==
    [top |-> DrawerId("S", num), bottom |-> DrawerId("S", num + 1), num |-> num + 2]

get_next_u2_large_pair(num) == BoundedPair("L", num, LargeCap)

get_next_u2_tall_pair(num) == BoundedPair("T", num, TallCap)

get_next_u2_medium_pair(num) == BoundedPair("M", num, MediumCap)

\* the ids a call hands out, in order, tagged with the half
Halves(r) ==
    <<[id |-> r.top, half |-> "top"]>>
    \o (IF r.bottom # EmptyStr THEN <<[id |-> r.bottom, half |-> "bottom"]>> ELSE <<>>)

Record(f, n, r) ==
    /\ ret' = [fam |-> f, n |-> n, top |-> r.top, bottom |-> r.bottom]
    /\ issued' = [issued EXCEPT ![f] = @ \o Halves(r)]

LabelGeneratorInit ==
    /\ u1_drawer_num = 1
    /\ u2_large_num = 1
    /\ u2_tall_num = 1
    /\ u2_medium_num = 1
    /\ labels = <<>>
    /\ ret = [fam |-> "none", n |-> 0, top |-> EmptyStr, bottom |-> EmptyStr]
    /\ issued = [f \in Families |-> <<>>]

\* main() not running: only the object under test exists
MainIdle ==
    /\ pc = "idle"
    /\ warning = FALSE

\* no parser called yet
\* no earlier run of main()
NoRun == [done |-> FALSE, labels |-> <<>>, counters |-> <<1, 1, 1, 1>>]

PassesIdle ==
    /\ next_component = 1
    /\ update_count = 0
    /\ error_count = 0
    /\ parts_without_location = <<>>
    /\ matched_count = 0
    /\ updated_count = 0
    /\ failed_matches = <<>>
    /\ matched_part = [found |-> FALSE, strategy |-> 0, part |-> [pk |-> 0, name |-> ""]]

\* no location asked for
StoreIdle ==
    /\ server_locations = <<>>
    /\ location_cache = <<>>
    /\ calls = <<>>

\* no run of the stock mover yet
NoPass == [no |-> 0, failed |-> FALSE, before |-> <<>>, patched |-> {}, after_clean |-> FALSE]

\* the stock mover not started
MoverIdle ==
    /\ catalog = <<>>
    /\ stock_items = <<>>
    /\ mover_parts = <<>>
    /\ part_no = 1
    /\ moved_count = 0
    /\ already_correct = 0
    /\ mover_errors = 0
    /\ mover_pc = "idle"
    /\ pass_log = NoPass

\* the label sheet not read, the updaters not started
UpdatersIdle ==
    /\ parsed = <<>>
    /\ first_run = NoRun
    /\ component_locations = <<>>
    /\ server_parts = <<>>
    /\ stock_locations = {}
    /\ PassesIdle

NoTools ==
    /\ UpdatersIdle
    /\ StoreIdle
    /\ MoverIdle

\* no catalog and no reference data read
NoPartsRead ==
    /\ all_parts = <<>>
    /\ reference = <<>>
    /\ resistors = <<>>
    /\ resistor_groups = <<>>
    /\ capacitors = <<>>
    /\ cap_groups = <<>>
    /\ diode_labels = <<>>
    /\ diode_groups = <<>>
    /\ trans_by_type = <<>>
    /\ trans_groups = <<>>
    /\ ic_labels = <<>>
    /\ ic_groups = <<>>
    /\ all_pots_values = <<>>
    /\ pot_groups = <<>>

NoParts ==
    /\ NoTools
    /\ NoPartsRead

(***************************************************************************)
(* SpecAlloc: a LabelGenerator under any sequence of get_next_*_pair calls *)
(***************************************************************************)
MaxSmallNum == 5      \* S calls are made while the S counter is at most this
MaxOverrun == 2       \* bounded families are called until this far past their capacity

CallSmall ==
    /\ u1_drawer_num <= MaxSmallNum
    /\ LET r == get_next_u1_drawer_pair(u1_drawer_num) IN
        /\ u1_drawer_num' = r.num
        /\ Record("S", u1_drawer_num, r)
    /\ UNCHANGED <<u2_large_num, u2_tall_num, u2_medium_num, labels, mainVars, famVars>>

CallLarge ==
    /\ u2_large_num <= LargeCap + MaxOverrun
    /\ LET r == get_next_u2_large_pair(u2_large_num) IN
        /\ u2_large_num' = r.num
        /\ Record("L", u2_large_num, r)
    /\ UNCHANGED <<u1_drawer_num, u2_tall_num, u2_medium_num, labels, mainVars, famVars>>

CallTall ==
    /\ u2_tall_num <= TallCap + MaxOverrun
    /\ LET r == get_next_u2_tall_pair(u2_tall_num) IN
        /\ u2_tall_num' = r.num
        /\ Record("T", u2_tall_num, r)
    /\ UNCHANGED <<u1_drawer_num, u2_large_num, u2_medium_num, labels, mainVars, famVars>>

CallMedium ==
    /\ u2_medium_num <= MediumCap + MaxOverrun
    /\ LET r == get_next_u2_medium_pair(u2_medium_num) IN
        /\ u2_medium_num' = r.num
        /\ Record("M", u2_medium_num, r)
    /\ UNCHANGED <<u1_drawer_num, u2_large_num, u2_tall_num, labels, mainVars, famVars>>

NextAlloc == CallSmall \/ CallLarge \/ CallTall \/ CallMedium

InitAlloc == LabelGeneratorInit /\ MainIdle /\ NoParts

SpecAlloc == InitAlloc /\ [][NextAlloc]_vars

(***************************************************************************)
(* Properties of the allocator                                             *)
(***************************************************************************)
CounterOf(f) ==
    CASE f = "S" -> u1_drawer_num [] f = "L" -> u2_large_num
      [] f = "T" -> u2_tall_num [] OTHER -> u2_medium_num

Bounded == {"L", "T", "M"}

\* the capacities as the specification states them
StatedCap(f) == CASE f = "L" -> 3 [] f = "T" -> 4 [] OTHER -> 16

Range(seq) == {seq[i] : i \in 1..Len(seq)}

\* the number in a drawer id
NumOf(id) == ParseDec(SubSeq(id, 2, Len(id)))

\* C1: a call made with the family's counter at n returns top id <prefix>n;
\* if n+1 <= cap (always, for S) it returns bottom id <prefix>(n+1) and the
\* counter becomes n+2, otherwise the bottom id is empty and the counter
\* becomes n+1; counters start at 1; M at 17 returns ("M17", "").
C1_NextPairContract ==
    /\ \A f \in Families : issued[f] = <<>> => CounterOf(f) = 1
    /\ ret.fam \in Families =>
        LET f == ret.fam
            n == ret.n
        IN  /\ ret.top = f \o Dec(n)
            /\ IF f = "S" \/ n + 1 <= StatedCap(f)
               THEN ret.bottom = f \o Dec(n + 1) /\ CounterOf(f) = n + 2
               ELSE ret.bottom = EmptyStr /\ CounterOf(f) = n + 1
            /\ (f = "S" => ret.bottom # EmptyStr)
            /\ (f = "M" /\ n = 17 => ret.top = "M17" /\ ret.bottom = EmptyStr)

\* C1 witness: the M call made with the counter at 17 has returned ("M17", "")
C1_Witness ==
    /\ ret.fam = "M" /\ ret.n = 17
    /\ ret.top = "M17" /\ ret.bottom = EmptyStr
    /\ u2_medium_num = 18

\* C2 as stated: the number of ids issued for a bounded family never exceeds
\* its capacity (L at most 3, T at most 4, M at most 16)
C2_IssuedWithinCapacity ==
    \A f \in Bounded : Len(issued[f]) <= StatedCap(f)

\* C2 amended: a bounded family issues at most cap ids numbered within its
\* capacity and never a bottom id numbered above it; top ids are issued on
\* every call, so the number of ids issued exceeds the capacity exactly when
\* the counter has passed cap+1 (for M, the condition of the overrun warning),
\* and every id above the capacity was issued as a top id.
C2_CapacityBindsBottomOnly ==
    \A f \in Bounded :
        /\ Cardinality({i \in 1..Len(issued[f]) : NumOf(issued[f][i].id) <= StatedCap(f)})
              <= StatedCap(f)
        /\ \A e \in Range(issued[f]) : NumOf(e.id) > StatedCap(f) => e.half = "top"
        /\ (Len(issued[f]) > StatedCap(f)) <=> (CounterOf(f) > StatedCap(f) + 1)
        /\ Len(issued[f]) = CounterOf(f) - 1

\* C2 witness: L and M have both been called past their capacity
C2_Witness ==
    /\ Len(issued["L"]) = 5 /\ issued["L"][4] = [id |-> "L4", half |-> "top"]
    /\ Len(issued["M"]) = 17
    /\ Len(issued["T"]) = 4

(***************************************************************************)
(* Spec: main() at the level of the label sheet.  Each section of main()   *)
(* turns the groups of one family into label pairs; what reaches the       *)
(* allocator from a section is the number of its groups, drawn here as an  *)
(* input.                                                                  *)
(***************************************************************************)
MaxICGroups == 14     \* groups of ICs in the catalog and the reference
MaxPotGroups == 3     \* groups of potentiometer values

\* the sections of main() that walk a list of groups two at a time
Sections == {
    [prefix |-> "R",          unit |-> "U1", fam |-> "S"],
    [prefix |-> "Caps Cer",   unit |-> "U1", fam |-> "S"],
    [prefix |-> "Caps Film",  unit |-> "U1", fam |-> "S"],
    [prefix |-> "Caps Elect", unit |-> "U1", fam |-> "S"],
    [prefix |-> "Diodes",     unit |-> "U1", fam |-> "S"],
    [prefix |-> "Q JFET",     unit |-> "U1", fam |-> "S"],
    [prefix |-> "Q NPN",      unit |-> "U1", fam |-> "S"],
    [prefix |-> "Q PNP",      unit |-> "U1", fam |-> "S"],
    [prefix |-> "Q MOSFET",   unit |-> "U1", fam |-> "S"],
    [prefix |-> "IC",         unit |-> "U2", fam |-> "M"],
    [prefix |-> "Pots",       unit |-> "U2", fam |-> "M"] }

\* the order in which main() runs (transistor types in the order of the reference loop)
Order == << "R", "Caps Cer", "Caps Film", "Caps Elect", "Diodes",
            "Q JFET", "Q NPN", "Q PNP", "Q MOSFET",
            "IC", "IC Socket", "Pots", "fixed", "summary", "done" >>

After(p) == Order[(CHOOSE k \in 1..Len(Order) : Order[k] = p) + 1]

SectionOf(p) == CHOOSE sec \in Sections : sec.prefix = p

\* the state of the LabelGenerator, threaded through the statements of a section
Gen == [u1 |-> u1_drawer_num, large |-> u2_large_num, tall |-> u2_tall_num,
        medium |-> u2_medium_num, labels |-> labels, ret |-> ret, issued |-> issued]

\* generator.get_next_*_pair() on g: the pair and the generator after the call
NextPair(g, fam) ==
    LET n == CASE fam = "S" -> g.u1 [] fam = "L" -> g.large
               [] fam = "T" -> g.tall [] OTHER -> g.medium
        r == CASE fam = "S" -> get_next_u1_drawer_pair(n)
               [] fam = "L" -> get_next_u2_large_pair(n)
               [] fam = "T" -> get_next_u2_tall_pair(n)
               [] OTHER -> get_next_u2_medium_pair(n)
        g1 == [g EXCEPT !.ret = [fam |-> fam, n |-> n, top |-> r.top, bottom |-> r.bottom],
                        !.issued[fam] = @ \o Halves(r)]
    IN  [top |-> r.top, bottom |-> r.bottom,
         gen |-> CASE fam = "S" -> [g1 EXCEPT !.u1 = r.num]
                   [] fam = "L" -> [g1 EXCEPT !.large = r.num]
                   [] fam = "T" -> [g1 EXCEPT !.tall = r.num]
                   [] OTHER -> [g1 EXCEPT !.medium = r.num]]

\* generator.add_label_pair(unit, drawer_top, drawer_bottom, label_top, label_bottom)
add_label_pair(g, unit, drawer_top, drawer_bottom, label_top, label_bottom) ==
    [g EXCEPT !.labels = Append(@, [Unit |-> unit, Bin_Top |-> drawer_top,
                                    Bin_Bottom |-> drawer_bottom,
                                    Label_Top |-> label_top,
                                    Label_Bottom |-> label_bottom])]

\* f"{prefix}: {label}" of group number k of a section; the joined displays
\* of the group are not known at this level and are written <k>
GroupLabel(prefix, k) == prefix \o ": <" \o Dec(k) \o ">"

\* one pass of "for i in range(0, len(groups), 2)": groups i and i+1 (0-based)
\* go on one label; the bottom drawer is blanked when there is no bottom group
PairBody(g, sec, i, n) ==
    LET p == NextPair(g, sec.fam)
        has_bottom == i + 1 < n
    IN  add_label_pair(p.gen, sec.unit, p.top,
                       IF has_bottom THEN p.bottom ELSE EmptyStr,
                       GroupLabel(sec.prefix, i + 1),
                       IF has_bottom THEN GroupLabel(sec.prefix, i + 2) ELSE EmptyStr)

RECURSIVE PairLoop(_, _, _, _)
PairLoop(g, sec, i, n) ==
    IF i >= n THEN g ELSE PairLoop(PairBody(g, sec, i, n), sec, i + 2, n)

SetGen(g) ==
    /\ u1_drawer_num' = g.u1
    /\ u2_large_num' = g.large
    /\ u2_tall_num' = g.tall
    /\ u2_medium_num' = g.medium
    /\ labels' = g.labels
    /\ ret' = g.ret
    /\ issued' = g.issued

\* the largest number of groups a section is given here
GroupBound(p) ==
    IF p = "IC" THEN MaxICGroups
    ELSE IF p = "Pots" THEN MaxPotGroups
    ELSE MaxSmallNum - u1_drawer_num

\* a component section: resistors ... transistors, ICs, pots
ComponentSection ==
    /\ pc \in {sec.prefix : sec \in Sections}
    /\ \E n \in 0..GroupBound(pc) :
          SetGen(PairLoop(Gen, SectionOf(pc), 0, n))
    /\ pc' = After(pc)
    /\ UNCHANGED <<warning, famVars>>

\* a section that prints one label: one pair from the family, the bottom
\* drawer kept as returned or blanked
OneLabel(g, unit, fam, keep_bottom, label_top, label_bottom) ==
    LET p == NextPair(g, fam)
    IN  add_label_pair(p.gen, unit, p.top,
                       IF keep_bottom THEN p.bottom ELSE EmptyStr,
                       label_top, label_bottom)

LEDs(g) == OneLabel(g, "U1", "S", TRUE, GroupLabel("LEDs 3mm", 1), GroupLabel("LEDs 5mm", 1))

LEDBezels(g) == OneLabel(g, "U1", "S", FALSE, GroupLabel("LED Bezels", 1), EmptyStr)

Connectors(g) == OneLabel(g, "U1", "S", TRUE, GroupLabel("1/4in Jacks", 1), GroupLabel("DC Jacks", 1))

Switches(g) == OneLabel(g, "U1", "S", FALSE, GroupLabel("Switches", 1), EmptyStr)

\* seven sizes in groups of 2: four groups
HeatShrink(g) == PairLoop(g, [prefix |-> "H-shrink-4x", unit |-> "U1", fam |-> "S"], 0, 4)

PCBs(g) == OneLabel(g, "U2", "L", TRUE, GroupLabel("PCBs", 1), GroupLabel("Enclosures", 1))

\* IC sockets: one medium pair, the bottom drawer left blank
ICSockets ==
    /\ pc = "IC Socket"
    /\ SetGen(OneLabel(Gen, "U2", "M", FALSE, GroupLabel("IC Socket", 1), EmptyStr))
    /\ pc' = After(pc)
    /\ UNCHANGED <<warning, famVars>>

\* LEDs, LED bezels, connectors, switches, heat shrink, PCBs and enclosures
FixedSections ==
    /\ pc = "fixed"
    /\ SetGen(PCBs(HeatShrink(Switches(Connectors(LEDBezels(LEDs(Gen)))))))
    /\ pc' = "summary"
    /\ UNCHANGED <<warning, famVars>>

MediumOverrunOffByOne(num) == num > 16

\* the condition of the WARNING line of the summary
MediumOverrun(num) == num > 17

\* write_csv and the summary
Summary ==
    /\ pc = "summary"
    /\ warning' = MediumOverrun(u2_medium_num)
    /\ pc' = "done"
    /\ UNCHANGED <<allocVars, famVars>>

Next == ComponentSection \/ ICSockets \/ FixedSections \/ Summary

Init == LabelGeneratorInit /\ pc = Order[1] /\ warning = FALSE /\ NoParts

Spec == Init /\ [][Next]_vars

(***************************************************************************)
(* Properties of a run of main()                                           *)
(***************************************************************************)
\* the non-empty drawer ids printed on the sheet, in sheet order
RECURSIVE BinIds(_)
BinIds(ls) ==
    IF ls = <<>> THEN <<>>
    ELSE (IF Head(ls).Bin_Top # EmptyStr THEN <<Head(ls).Bin_Top>> ELSE <<>>)
         \o (IF Head(ls).Bin_Bottom # EmptyStr THEN <<Head(ls).Bin_Bottom>> ELSE <<>>)
         \o BinIds(Tail(ls))

\* C3: past M16 the allocator keeps issuing top ids M17, M18, ... and each is
\* printed on the sheet (no request is refused, clamped or dropped), and at
\* the end of the run the overrun warning is raised iff some M id numbered
\* above 16 was issued.
C3_MediumOverrunWarned ==
    /\ \A k \in 17..(u2_medium_num - 1) :
          /\ [id |-> "M" \o Dec(k), half |-> "top"] \in Range(issued["M"])
          /\ \E i \in 1..Len(labels) : labels[i].Bin_Top = "M" \o Dec(k)
    /\ (pc = "done" => (warning <=> \E e \in Range(issued["M"]) : NumOf(e.id) > 16))
    /\ (pc # "done" => ~warning)

\* C3 witness: a finished run that issued M17 and M18 and raised the warning
C3_Witness ==
    /\ pc = "done" /\ warning
    /\ u2_medium_num = 19
    /\ [id |-> "M18", half |-> "top"] \in Range(issued["M"])

\* C4: per family the ids are issued with strictly increasing numbers, no id
\* is issued twice, and the non-empty Bin_Top/Bin_Bottom of the sheet are
\* pairwise distinct.
C4_IdsIncreasingNeverReused ==
    /\ \A f \in Families : \A i \in 1..(Len(issued[f]) - 1) :
          NumOf(issued[f][i].id) < NumOf(issued[f][i + 1].id)
    /\ Cardinality(UNION {{issued[f][i].id : i \in 1..Len(issued[f])} : f \in Families})
          = Len(issued["S"]) + Len(issued["L"]) + Len(issued["T"]) + Len(issued["M"])
    /\ Cardinality(Range(BinIds(labels))) = Len(BinIds(labels))

\* C4 witness: a finished run with S, M (past 16) and L drawers on the sheet
C4_Witness ==
    /\ pc = "done"
    /\ Len(issued["S"]) >= 14 /\ Len(issued["M"]) > 16 /\ Len(issued["L"]) = 2
    /\ Len(BinIds(labels)) >= 30

(***************************************************************************)
(* main(): registration and grouping of the families.  The catalog and the *)
(* reference data are the inputs; each step is one block of main().        *)
(***************************************************************************)
\* the part a reference value is registered with: not in the catalog, no stock
ReferencePart(name) == [pk |-> 0, name |-> name, path |-> ""]

\* resistors = [(value, display, part) for the parts named resistor if value > 0]
RECURSIVE ParsedResistors(_)
ParsedResistors(parts) ==
    IF parts = <<>> THEN <<>>
    ELSE LET part == Head(parts)
             r == parse_resistor_value(part.name)
         IN  (IF Contains("resistor", Lower(part.name)) /\ r.value > 0
              THEN <<[value |-> r.value, display |-> r.display, part |-> part]>>
              ELSE <<>>) \o ParsedResistors(Tail(parts))

\* whether the reference value counts as already present
ResistorFound(rs, ref_value) ==
    LET ref_value_clean == Replace(Replace(ref_value, "R", "Ω"), "Ω", "")
    IN  \E k \in 1..Len(rs) :
            ref_value = rs[k].display \/ Contains(ref_value_clean, rs[k].display)

\* one pass of the loop over ref_resistors
AddReferenceResistor(rs, ref_value) ==
    IF ResistorFound(rs, ref_value) THEN rs
    ELSE LET r == parse_resistor_value(ref_value \o " Resistor")
         IN  Append(rs, [value |-> r.value, display |-> r.display,
                         part |-> ReferencePart(r.display \o " Resistor")])

RECURSIVE WithReferenceResistors(_, _)
WithReferenceResistors(rs, refs) ==
    IF refs = <<>> THEN rs
    ELSE WithReferenceResistors(AddReferenceResistor(rs, Head(refs)), Tail(refs))

\* variant: of the entries of one key the last is kept
RECURSIVE DedupedKeepLast(_, _, _)
DedupedKeepLast(items, keys, seen) ==
    IF items = <<>> THEN <<>>
    ELSE IF \E k \in 2..Len(keys) : keys[k] = Head(keys)
    THEN DedupedKeepLast(Tail(items), Tail(keys), seen)
    ELSE <<Head(items)>> \o DedupedKeepLast(Tail(items), Tail(keys), seen)

\* the entries whose key is not seen before, in order; keys[k] is the key of
\* items[k]
RECURSIVE Deduped(_, _, _)
Deduped(items, keys, seen) ==
    IF items = <<>> THEN <<>>
    ELSE IF Head(keys) \in seen THEN Deduped(Tail(items), Tail(keys), seen)
    ELSE <<Head(items)>> \o Deduped(Tail(items), Tail(keys), seen \cup {Head(keys)})

\* display not in seen_displays
ResistorKeys(rs) == [k \in 1..Len(rs) |-> rs[k].display]

\* key = (display, cap_type)
CapacitorKeys(caps) == [k \in 1..Len(caps) |-> <<caps[k].display, caps[k].cap_type>>]

\* capacitors = [(value, display, cap_type, part) for the parts named cap if value > 0]
RECURSIVE ParsedCapacitors(_)
ParsedCapacitors(parts) ==
    IF parts = <<>> THEN <<>>
    ELSE LET part == Head(parts)
             c == parse_capacitor_value(part.name)
         IN  (IF (Contains("capacitor", Lower(part.name)) \/ Contains("cap", Lower(part.name)))
                 /\ c.value > 0
              THEN <<[value |-> c.value, display |-> c.display, cap_type |-> c.cap_type,
                      part |-> part]>>
              ELSE <<>>) \o ParsedCapacitors(Tail(parts))

\* cap_type.title()
Title(cap_type) == UpperChar(Ch(cap_type, 1)) \o From(cap_type, 2)

CapacitorFound(caps, ref_value) == \E k \in 1..Len(caps) : caps[k].display = ref_value

\* one pass of the loop over ref_caps of cap_type
AddReferenceCapacitor(caps, cap_type, ref_value) ==
    IF CapacitorFound(caps, ref_value) THEN caps
    ELSE LET c == parse_capacitor_value(ref_value \o " Capacitor")
         IN  Append(caps, [value |-> c.value, display |-> c.display, cap_type |-> cap_type,
                           part |-> ReferencePart(c.display \o " " \o Title(cap_type)
                                                  \o " Capacitor")])

RECURSIVE WithReferenceCapacitorsOf(_, _, _)
WithReferenceCapacitorsOf(caps, cap_type, refs) ==
    IF refs = <<>> THEN caps
    ELSE WithReferenceCapacitorsOf(AddReferenceCapacitor(caps, cap_type, Head(refs)),
                                   cap_type, Tail(refs))

\* for cap_type in ['ceramic', 'film', 'electrolytic']
RECURSIVE WithReferenceCapacitors(_, _, _)
WithReferenceCapacitors(caps, types, refs) ==
    IF types = <<>> THEN caps
    ELSE WithReferenceCapacitors(WithReferenceCapacitorsOf(caps, Head(types), refs[Head(types)]),
                                 Tail(types), refs)

\* name.replace(token, '') for each token in turn
RECURSIVE Without(_, _)
Without(name, tokens) ==
    IF tokens = <<>> THEN name ELSE Without(Replace(name, Head(tokens), ""), Tail(tokens))

DiodeSuffixes ==
    <<" Rectifier", " Germanium", " Silicon", " Schottky", " Zener Diode", " Zener", " Diode",
      " Germanium Diode">>

clean_diode_name(name) == Strip(Without(name, DiodeSuffixes))

TransistorSuffixes == <<" NPN", " PNP", " JFET", " MOSFET">>

clean_transistor_name(name) == Strip(Without(name, TransistorSuffixes))

ICSuffixes ==
    <<" Dual Op-Amp", " Quad Op-Amp", " Single Op-Amp", " Op-Amp", " IC", " Charge Pump",
      " Regulator", " Audio Amp", " Hex Inverter", " Delay", " EEPROM", " DSP">>

clean_ic_name(name) == Strip(Without(name, ICSuffixes))

\* any(ref.lower() in label.lower() for label in names)
InSomeLabel(ref, names) == \E k \in 1..Len(names) : Contains(Lower(ref), Lower(names[k]))

\* append every reference name that no label contains, in turn
RECURSIVE WithReferenceNames(_, _)
WithReferenceNames(names, refs) ==
    IF refs = <<>> THEN names
    ELSE WithReferenceNames(IF InSomeLabel(Head(refs), names) THEN names
                            ELSE Append(names, Head(refs)),
                            Tail(refs))

\* the cleaned names of the parts under a diode category, LEDs left out
RECURSIVE DiodeLabels(_)
DiodeLabels(parts) ==
    IF parts = <<>> THEN <<>>
    ELSE LET part == Head(parts)
         IN  (IF Contains("diode", Lower(part.path)) /\ ~Contains("led", Lower(part.name))
              THEN <<clean_diode_name(part.name)>> ELSE <<>>) \o DiodeLabels(Tail(parts))

\* the cleaned reference types, LEDs left out
RECURSIVE DiodeReferences(_)
DiodeReferences(refs) ==
    IF refs = <<>> THEN <<>>
    ELSE (IF ~Contains("led", Lower(Head(refs))) THEN <<clean_diode_name(Head(refs))>> ELSE <<>>)
         \o DiodeReferences(Tail(refs))

TransTypes == <<"JFET", "NPN", "PNP", "MOSFET">>

\* the type a category path files a transistor under, "" when none
TransTypeOf(path) ==
    IF Contains("jfet", Lower(path)) THEN "JFET"
    ELSE IF Contains("npn", Lower(path)) THEN "NPN"
    ELSE IF Contains("pnp", Lower(path)) THEN "PNP"
    ELSE IF Contains("mosfet", Lower(path)) THEN "MOSFET"
    ELSE ""

\* trans_by_type[trans_type]
NamesOfType(by_type, trans_type) ==
    IF \E k \in 1..Len(by_type) : by_type[k].trans_type = trans_type
    THEN (CHOOSE e \in Range(by_type) : e.trans_type = trans_type).parts
    ELSE <<>>

\* trans_by_type[trans_type] = parts; a type not seen before goes last
SetType(by_type, trans_type, parts) ==
    IF \E k \in 1..Len(by_type) : by_type[k].trans_type = trans_type
    THEN [k \in 1..Len(by_type) |->
             IF by_type[k].trans_type = trans_type
             THEN [trans_type |-> trans_type, parts |-> parts] ELSE by_type[k]]
    ELSE Append(by_type, [trans_type |-> trans_type, parts |-> parts])

\* the loop over transistor_parts
RECURSIVE TransistorsByType(_, _)
TransistorsByType(by_type, parts) ==
    IF parts = <<>> THEN by_type
    ELSE LET part == Head(parts)
             trans_type == TransTypeOf(part.path)
         IN  TransistorsByType(
                 IF Contains("transistor", Lower(part.path)) /\ trans_type # ""
                 THEN SetType(by_type, trans_type,
                              Append(NamesOfType(by_type, trans_type),
                                     clean_transistor_name(part.name)))
                 ELSE by_type,
                 Tail(parts))

\* clean_transistor_name of every reference type
CleanedTransistors(refs) == [k \in 1..Len(refs) |-> clean_transistor_name(refs[k])]

\* the loop over the reference transistors; a type with no reference is skipped
RECURSIVE WithReferenceTransistors(_, _, _)
WithReferenceTransistors(by_type, types, refs) ==
    IF types = <<>> THEN by_type
    ELSE LET trans_type == Head(types)
             ref_key == Lower(trans_type)
         IN  WithReferenceTransistors(
                 IF refs[ref_key] = <<>> THEN by_type
                 ELSE SetType(by_type, trans_type,
                              WithReferenceNames(NamesOfType(by_type, trans_type),
                                                 CleanedTransistors(refs[ref_key]))),
                 Tail(types), refs)

\* ic_labels before the reference is merged
RECURSIVE ICLabels(_)
ICLabels(parts) ==
    IF parts = <<>> THEN <<>>
    ELSE LET part == Head(parts)
         IN  (IF StartsAt(part.path, 1, "ICs") \/ StartsAt(part.path, 1, "Active/ICs")
              THEN <<clean_ic_name(part.name)>> ELSE <<>>) \o ICLabels(Tail(parts))

PotAccessoryKeywords == <<"nut", "washer", "dust", "seal", "knob", "cap", "shaft">>

IsPotAccessory(name) ==
    \E k \in 1..Len(PotAccessoryKeywords) : Contains(PotAccessoryKeywords[k], Lower(name))

\* re.search(r'(\d+\.?\d*)\s*([KM]?)', name): value and mult joined
TrimPotDisplay(name) ==
    LET i == FirstDigit(name)
        e == NumberEnd(name, i)
        u == SpacesEnd(name, e)
    IN  SubSeq(name, i, e - 1)
        \o (IF u <= Len(name) /\ Ch(name, u) \in {"K", "M"} THEN Ch(name, u) ELSE "")

\* group 1 of re.search(r'[ACW]?(\d+\.?\d*[KM]?)', name), and of the pattern
\* with B: the optional letter is outside the group
PotValue(name) ==
    LET i == FirstDigit(name)
        e == NumberEnd(name, i)
    IN  SubSeq(name, i, IF e <= Len(name) /\ Ch(name, e) \in {"K", "M"} THEN e ELSE e - 1)

\* the list a potentiometer part is filed in, "" when it is filed nowhere
PotListOf(name) ==
    IF ~Contains("pot", Lower(name)) \/ IsPotAccessory(name) \/ FirstDigit(name) = 0 THEN ""
    ELSE IF Contains("trim", Lower(name)) THEN "Trim Pots"
    ELSE IF StartsAt(name, 1, "A") \/ StartsAt(name, 1, "C") \/ StartsAt(name, 1, "W") THEN "Pots A"
    ELSE IF StartsAt(name, 1, "B") THEN "Pots B"
    ELSE ""

\* pots_by_type[pot_list] after the loop over pot_parts
RECURSIVE PotsOfList(_, _)
PotsOfList(parts, pot_list) ==
    IF parts = <<>> THEN <<>>
    ELSE LET name == Head(parts).name
         IN  (IF PotListOf(name) = pot_list
              THEN <<IF pot_list = "Trim Pots" THEN TrimPotDisplay(name) ELSE PotValue(name)>>
              ELSE <<>>) \o PotsOfList(Tail(parts), pot_list)

\* ref['value'] without its taper letter
PotReferenceValues(refs) == [k \in 1..Len(refs) |-> Without(refs[k], <<"A", "B", "C", "W">>)]

\* sorted(list(set(values)))
SortedSet(values) == SortedStrings(Range(values))

(***************************************************************************)
(* The blocks of main(), in order                                          *)
(***************************************************************************)
Blocks ==
    <<"resistors", "resistors.reference", "resistors.dedup", "resistors.group", "resistors.labels",
      "capacitors", "capacitors.reference", "capacitors.dedup", "capacitors.group",
      "capacitors.labels", "diodes", "diodes.labels", "transistors", "transistors.labels",
      "ics", "ics.labels", "ic_sockets", "pots", "pots.labels", "fixed", "grouped", "located">>

NextBlock(p) == Blocks[(CHOOSE k \in 1..Len(Blocks) : Blocks[k] = p) + 1]

\* what a block leaves alone, besides the variables it names
Inputs == <<all_parts, reference, allocVars, warning, toolVars>>

ParseResistors ==
    /\ pc = "resistors"
    /\ resistors' = ParsedResistors(all_parts)
    /\ pc' = NextBlock(pc)
    /\ UNCHANGED <<Inputs, resistor_groups, capacitors, cap_groups, diode_labels, diode_groups,
                   trans_by_type, trans_groups, ic_labels, ic_groups, all_pots_values, pot_groups>>

MergeReferenceResistors ==
    /\ pc = "resistors.reference"
    /\ resistors' = WithReferenceResistors(resistors, reference.resistors)
    /\ pc' = NextBlock(pc)
    /\ UNCHANGED <<Inputs, resistor_groups, capacitors, cap_groups, diode_labels, diode_groups,
                   trans_by_type, trans_groups, ic_labels, ic_groups, all_pots_values, pot_groups>>

DedupResistors ==
    /\ pc = "resistors.dedup"
    /\ resistors' = Deduped(resistors, ResistorKeys(resistors), {})
    /\ pc' = NextBlock(pc)
    /\ UNCHANGED <<Inputs, resistor_groups, capacitors, cap_groups, diode_labels, diode_groups,
                   trans_by_type, trans_groups, ic_labels, ic_groups, all_pots_values, pot_groups>>

GroupResistors ==
    /\ pc = "resistors.group"
    /\ resistor_groups' = group_resistors_by_decade(resistors)
    /\ pc' = NextBlock(pc)
    /\ UNCHANGED <<Inputs, resistors, capacitors, cap_groups, diode_labels, diode_groups,
                   trans_by_type, trans_groups, ic_labels, ic_groups, all_pots_values, pot_groups>>

ParseCapacitors ==
    /\ pc = "capacitors"
    /\ capacitors' = ParsedCapacitors(all_parts)
    /\ pc' = NextBlock(pc)
    /\ UNCHANGED <<Inputs, resistors, resistor_groups, cap_groups, diode_labels, diode_groups,
                   trans_by_type, trans_groups, ic_labels, ic_groups, all_pots_values, pot_groups>>

MergeReferenceCapacitors ==
    /\ pc = "capacitors.reference"
    /\ capacitors' = WithReferenceCapacitors(capacitors, CapTypes, reference.capacitors)
    /\ pc' = NextBlock(pc)
    /\ UNCHANGED <<Inputs, resistors, resistor_groups, cap_groups, diode_labels, diode_groups,
                   trans_by_type, trans_groups, ic_labels, ic_groups, all_pots_values, pot_groups>>

DedupCapacitors ==
    /\ pc = "capacitors.dedup"
    /\ capacitors' = Deduped(capacitors, CapacitorKeys(capacitors), {})
    /\ pc' = NextBlock(pc)
    /\ UNCHANGED <<Inputs, resistors, resistor_groups, cap_groups, diode_labels, diode_groups,
                   trans_by_type, trans_groups, ic_labels, ic_groups, all_pots_values, pot_groups>>

GroupCapacitors ==
    /\ pc = "capacitors.group"
    /\ cap_groups' = group_capacitors_by_type_and_value(capacitors)
    /\ pc' = NextBlock(pc)
    /\ UNCHANGED <<Inputs, resistors, resistor_groups, capacitors, diode_labels, diode_groups,
                   trans_by_type, trans_groups, ic_labels, ic_groups, all_pots_values, pot_groups>>

Diodes ==
    /\ pc = "diodes"
    /\ diode_labels' = WithReferenceNames(DiodeLabels(all_parts), DiodeReferences(reference.diodes))
    /\ diode_groups' = Chunks(diode_labels')
    /\ pc' = NextBlock(pc)
    /\ UNCHANGED <<Inputs, resistors, resistor_groups, capacitors, cap_groups,
                   trans_by_type, trans_groups, ic_labels, ic_groups, all_pots_values, pot_groups>>

Transistors ==
    /\ pc = "transistors"
    /\ trans_by_type' = WithReferenceTransistors(TransistorsByType(<<>>, all_parts), TransTypes,
                                                 reference.transistors)
    /\ trans_groups' = [k \in 1..Len(trans_by_type') |->
                           [trans_type |-> trans_by_type'[k].trans_type,
                            groups |-> Chunks(trans_by_type'[k].parts)]]
    /\ pc' = NextBlock(pc)
    /\ UNCHANGED <<Inputs, resistors, resistor_groups, capacitors, cap_groups,
                   diode_labels, diode_groups, ic_labels, ic_groups, all_pots_values, pot_groups>>

ICs ==
    /\ pc = "ics"
    /\ ic_labels' = SortedSet(WithReferenceNames(ICLabels(all_parts), reference.ics))
    /\ ic_groups' = Chunks(ic_labels')
    /\ pc' = NextBlock(pc)
    /\ UNCHANGED <<Inputs, resistors, resistor_groups, capacitors, cap_groups, diode_labels,
                   diode_groups, trans_by_type, trans_groups, all_pots_values, pot_groups>>

Pots ==
    /\ pc = "pots"
    /\ all_pots_values' =
           SortedSet(WithReferenceNames(PotsOfList(all_parts, "Pots A"),
                                        PotReferenceValues(reference.potentiometers.audio_log))
                     \o WithReferenceNames(PotsOfList(all_parts, "Pots B"),
                                           PotReferenceValues(reference.potentiometers.linear))
                     \o WithReferenceNames(PotsOfList(all_parts, "Trim Pots"),
                                           reference.potentiometers.trimmers))
    /\ pot_groups' = Chunks(all_pots_values')
    /\ pc' = NextBlock(pc)
    /\ UNCHANGED <<Inputs, resistors, resistor_groups, capacitors, cap_groups, diode_labels,
                   diode_groups, trans_by_type, trans_groups, ic_labels, ic_groups>>

(***************************************************************************)
(* main(): the labels of the families, with the texts of the groups        *)
(***************************************************************************)
\* [display for _, display, _ in group]
Displays(entries) == [k \in 1..Len(entries) |-> entries[k].display]

GroupDisplays(groups) == [k \in 1..Len(groups) |-> Displays(groups[k])]

\* "  |  ".join(items)
RECURSIVE format_4x_compartment_label(_)
format_4x_compartment_label(items) ==
    IF items = <<>> THEN EmptyStr
    ELSE IF Len(items) = 1 THEN items[1]
    ELSE items[1] \o "  |  " \o format_4x_compartment_label(Tail(items))

\* the pass keeping the bottom drawer id when there is no bottom group
LabelBodyKeepsDrawer(g, sec, groups, i) ==
    LET p == NextPair(g, sec.fam)
        has_bottom == i + 1 < Len(groups)
        top_label == format_4x_compartment_label(groups[i + 1])
        bottom_label == IF has_bottom THEN format_4x_compartment_label(groups[i + 2])
                        ELSE EmptyStr
    IN  add_label_pair(p.gen, sec.unit, p.top, p.bottom,
                       sec.prefix \o ": " \o top_label,
                       IF bottom_label # EmptyStr THEN sec.prefix \o ": " \o bottom_label
                       ELSE EmptyStr)

\* one pass of "for i in range(0, len(groups), 2)" over the item lists of the
\* groups: the label of a half is f"{prefix}: {label}", "" for an empty label
LabelBody(g, sec, groups, i) ==
    LET p == NextPair(g, sec.fam)
        has_bottom == i + 1 < Len(groups)
        top_label == format_4x_compartment_label(groups[i + 1])
        bottom_label == IF has_bottom THEN format_4x_compartment_label(groups[i + 2])
                        ELSE EmptyStr
    IN  add_label_pair(p.gen, sec.unit, p.top,
                       IF has_bottom THEN p.bottom ELSE EmptyStr,
                       sec.prefix \o ": " \o top_label,
                       IF bottom_label # EmptyStr THEN sec.prefix \o ": " \o bottom_label
                       ELSE EmptyStr)

RECURSIVE LabelLoop(_, _, _, _)
LabelLoop(g, sec, groups, i) ==
    IF i >= Len(groups) THEN g ELSE LabelLoop(LabelBody(g, sec, groups, i), sec, groups, i + 2)

LabelResistors ==
    /\ pc = "resistors.labels"
    /\ SetGen(LabelLoop(Gen, SectionOf("R"), GroupDisplays(resistor_groups), 0))
    /\ pc' = NextBlock(pc)
    /\ UNCHANGED <<warning, famVars>>

\* for cap_type in ['ceramic', 'film', 'electrolytic']
LabelCapacitors ==
    /\ pc = "capacitors.labels"
    /\ SetGen(LabelLoop(LabelLoop(LabelLoop(Gen,
                  SectionOf("Caps Cer"), GroupDisplays(cap_groups["ceramic"]), 0),
                  SectionOf("Caps Film"), GroupDisplays(cap_groups["film"]), 0),
                  SectionOf("Caps Elect"), GroupDisplays(cap_groups["electrolytic"]), 0))
    /\ pc' = NextBlock(pc)
    /\ UNCHANGED <<warning, famVars>>

LabelDiodes ==
    /\ pc = "diodes.labels"
    /\ SetGen(LabelLoop(Gen, SectionOf("Diodes"), diode_groups, 0))
    /\ pc' = NextBlock(pc)
    /\ UNCHANGED <<warning, famVars>>

\* for trans_type, parts in trans_by_type.items()
RECURSIVE TransistorLabels(_, _)
TransistorLabels(g, by_type) ==
    IF by_type = <<>> THEN g
    ELSE TransistorLabels(LabelLoop(g, SectionOf("Q " \o Head(by_type).trans_type),
                                    Head(by_type).groups, 0),
                          Tail(by_type))

LabelTransistors ==
    /\ pc = "transistors.labels"
    /\ SetGen(TransistorLabels(Gen, trans_groups))
    /\ pc' = NextBlock(pc)
    /\ UNCHANGED <<warning, famVars>>

LabelICs ==
    /\ pc = "ics.labels"
    /\ SetGen(LabelLoop(Gen, SectionOf("IC"), ic_groups, 0))
    /\ pc' = NextBlock(pc)
    /\ UNCHANGED <<warning, famVars>>

\* IC sockets: one medium pair, the bottom drawer left blank
ICSocketLabel(g) ==
    OneLabel(g, "U2", "M", FALSE,
             "IC Socket: " \o format_4x_compartment_label(<<"8-pin", "14-pin", "16-pin">>),
             EmptyStr)

LabelICSockets ==
    /\ pc = "ic_sockets"
    /\ SetGen(ICSocketLabel(Gen))
    /\ pc' = NextBlock(pc)
    /\ UNCHANGED <<warning, famVars>>

LabelPots ==
    /\ pc = "pots.labels"
    /\ SetGen(LabelLoop(Gen, SectionOf("Pots"), pot_groups, 0))
    /\ pc' = NextBlock(pc)
    /\ UNCHANGED <<warning, famVars>>

\* LEDs, LED bezels, connectors, switches, heat shrink (seven sizes in groups
\* of 2, each group joined with " | "), PCBs and enclosures
FixedLabels(g) ==
    OneLabel(
    LabelLoop(
    OneLabel(
    OneLabel(
    OneLabel(
    OneLabel(g, "U1", "S", TRUE,
             "LEDs 3mm: " \o format_4x_compartment_label(<<"Red", "Blue", "Green", "Orange">>),
             "LEDs 5mm: " \o format_4x_compartment_label(<<"Red", "Blue", "Green", "Orange">>)),
             "U1", "S", FALSE,
             "LED Bezels: " \o format_4x_compartment_label(<<"3mm", "5mm", "Spacers">>), EmptyStr),
             "U1", "S", TRUE,
             "1/4\" Jacks: Mono | Stereo", "DC Jacks: 2.1PNL  |  2.5PNL  | 2.1PCB  | 2.5PCB"),
             "U1", "S", FALSE, "Switches: 3PDT  |  SPDT", EmptyStr),
             [prefix |-> "H-shrink-4x", unit |-> "U1", fam |-> "S"],
             << <<"3/32\" | 1/8\"">>, <<"3/16\" | 1/4\"">>, <<"3/8\" | 1/2\"">>, <<"3/4\"">> >>, 0),
             "U2", "L", TRUE, "PCBs", "Enclosures")

\* the fixed sections, write_csv and the summary
LabelFixedSections ==
    /\ pc = "fixed"
    /\ SetGen(FixedLabels(Gen))
    /\ warning' = MediumOverrun(u2_medium_num)
    /\ pc' = NextBlock(pc)
    /\ UNCHANGED famVars

(***************************************************************************)
(* update_inventree_locations.py: the label sheet read back                *)
(***************************************************************************)
\* s.endswith(suffix)
EndsWith(s, suffix) ==
    Len(s) >= Len(suffix) /\ SubSeq(s, Len(s) - Len(suffix) + 1, Len(s)) = suffix

\* any(c.isdigit() for c in s)
HasDigit(s) == \E i \in 1..Len(s) : IsDigit(Ch(s, i))

\* the first of the positions, 0 when there is none
FirstIndex(positions) ==
    IF positions = {} THEN 0 ELSE CHOOSE k \in positions : \A m \in positions : k <= m

\* s.split(sep) for a separator of one character
RECURSIVE Split(_, _)
Split(s, sep) ==
    LET hits == {i \in 1..Len(s) : Ch(s, i) = sep}
    IN  IF hits = {} THEN <<s>>
        ELSE LET i == CHOOSE i \in hits : \A j \in hits : i <= j
             IN  <<SubSeq(s, 1, i - 1)>> \o Split(From(s, i + 1), sep)

\* [c.strip() for c in pieces if c.strip()]
RECURSIVE StrippedNonEmpty(_)
StrippedNonEmpty(pieces) ==
    IF pieces = <<>> THEN <<>>
    ELSE (IF Strip(Head(pieces)) # EmptyStr THEN <<Strip(Head(pieces))>> ELSE <<>>)
         \o StrippedNonEmpty(Tail(pieces))

\* the pieces between the bars kept as they are
ParseLabelComponentsUnstripped(label) ==
    Split(IF Contains(":", label) THEN From(label, Len(Split(label, ":")[1]) + 2) ELSE label, "|")

parse_label_components(label) ==
    LET values == IF Contains(":", label)
                  THEN From(label, Len(Split(label, ":")[1]) + 2)
                  ELSE label
    IN  StrippedNonEmpty(Split(values, "|"))

\* the location put in front of the list of the component
AddLocationFirst(locs, comp, unit, drawer, i) ==
    LET loc == [unit |-> unit, drawer |-> drawer, compartment |-> i]
        at == FirstIndex({k \in 1..Len(locs) : locs[k].component = comp})
    IN  IF at # 0
        THEN [locs EXCEPT ![at].locations = <<loc>> \o @]
        ELSE Append(locs, [component |-> comp, locations |-> <<loc>>])

\* component_locations[comp].append((unit, drawer, i)), the key added at the
\* end of the dict when it is new
AddLocation(locs, comp, unit, drawer, i) ==
    LET loc == [unit |-> unit, drawer |-> drawer, compartment |-> i]
        at == FirstIndex({k \in 1..Len(locs) : locs[k].component = comp})
    IN  IF at # 0
        THEN [locs EXCEPT ![at].locations = Append(@, loc)]
        ELSE Append(locs, [component |-> comp, locations |-> <<loc>>])

\* for i, comp in enumerate(components, start=1)
RECURSIVE AddComponents(_, _, _, _, _)
AddComponents(locs, components, unit, drawer, i) ==
    IF i > Len(components) THEN locs
    ELSE AddComponents(AddLocation(locs, components[i], unit, drawer, i),
                       components, unit, drawer, i + 1)

\* one half of a row: "if label and drawer"
AddHalf(locs, unit, drawer, label) ==
    IF label # EmptyStr /\ drawer # EmptyStr
    THEN AddComponents(locs, parse_label_components(label), unit, drawer, 1)
    ELSE locs

\* the rows are the label pairs in the order write_csv wrote them; the csv
\* module gives each of the five named fields back as it was written
RECURSIVE parse_label_data(_, _)
parse_label_data(rows, locs) ==
    IF rows = <<>> THEN locs
    ELSE LET row == Head(rows)
             top == AddHalf(locs, row.Unit, row.Bin_Top, row.Label_Top)
             both == AddHalf(top, row.Unit, row.Bin_Bottom, row.Label_Bottom)
         IN  \* the row is processed whole before the next one is read
             IF Len(both) >= 0 THEN parse_label_data(Tail(rows), both) ELSE locs

\* the pathstring the server gives a location: the names from the root down
RECURSIVE PathString(_)
PathString(names) ==
    IF Len(names) = 1 THEN names[1]
    ELSE names[1] \o "/" \o PathString(Tail(names))

\* the pathstrings of the locations of the names and of those above them
PathsTo(names) == {PathString(SubSeq(names, 1, k)) : k \in 1..Len(names)}

\* the names create_location_hierarchy, create_drawer_locations and
\* create_compartment_location give the locations down to a compartment
CompartmentNames(unit, drawer_id, compartment) ==
    <<"Workshop", IF unit = "U1" THEN "Unit 1 (U1)" ELSE "Unit 2 (U2)",
      drawer_id, "Compartment " \o Dec(compartment)>>

\* update_inventree_locations.main, steps 1 to 3, on the sheet main() wrote:
\* the unit locations are there afterwards, the map is parsed and saved
ParseLabelData ==
    /\ pc = "grouped"
    /\ stock_locations' = stock_locations
           \cup PathsTo(<<"Workshop", "Unit 1 (U1)">>) \cup PathsTo(<<"Workshop", "Unit 2 (U2)">>)
    /\ component_locations' = parse_label_data(labels, <<>>)
    /\ pc' = NextBlock(pc)
    /\ UNCHANGED <<allocVars, warning, all_parts, reference, resistors, resistor_groups,
                   capacitors, cap_groups, diode_labels, diode_groups, trans_by_type,
                   trans_groups, ic_labels, ic_groups, all_pots_values, pot_groups, parsed,
                   server_parts, passVars, first_run, apiVars>>

\* what the passes leave alone
MainDone == <<allocVars, warning, all_parts, reference, resistors, resistor_groups,
              capacitors, cap_groups, diode_labels, diode_groups, trans_by_type,
              trans_groups, ic_labels, ic_groups, all_pots_values, pot_groups, parsed,
              component_locations, first_run, apiVars>>

component_to_part_name(component) ==
    IF /\ EndsWith(component, "R") \/ EndsWith(component, "K") \/ EndsWith(component, "M")
       /\ HasDigit(component)
    THEN component \o " Resistor"
    ELSE IF \E unit \in {"pf", "nf", "uf", "µf"} : Contains(unit, Lower(component))
    THEN component \o " Capacitor"
    ELSE component

\* the answer of the server to search=part_name: the parts whose name holds
\* the text, whatever the case, in the order of the catalog
SearchResults(part_name, parts) ==
    SelectSeq(parts, LAMBDA part : Contains(Lower(part_name), Lower(part.name)))

\* the pk found, 0 for None
find_part_by_name(part_name, parts) ==
    LET results == SearchResults(part_name, parts)
        exact == {k \in 1..Len(results) : Lower(results[k].name) = Lower(part_name)}
    IN  IF results = <<>> THEN 0
        ELSE IF exact # {} THEN results[FirstIndex(exact)].pk
        ELSE results[1].pk

\* PATCH /api/part/{part_id}/ with default_location
update_part_default_location(parts, part_id, location) ==
    [k \in 1..Len(parts) |->
        IF parts[k].pk = part_id THEN [parts[k] EXCEPT !.default_location = location]
        ELSE parts[k]]

\* one pass of the loop of update_inventree_locations.main (step 4)
UpdateComponent ==
    /\ pc = "located"
    /\ next_component <= Len(component_locations)
    /\ LET component == component_locations[next_component].component
           first == component_locations[next_component].locations[1]
           names == CompartmentNames(first.unit, first.drawer, first.compartment)
           part_id == find_part_by_name(component_to_part_name(component), server_parts)
       IN  /\ stock_locations' = stock_locations \cup PathsTo(names)
           /\ IF part_id > 0
              THEN /\ server_parts' = update_part_default_location(server_parts, part_id,
                                                                   PathString(names))
                   /\ update_count' = update_count + 1
                   /\ UNCHANGED error_count
              ELSE /\ error_count' = error_count + 1
                   /\ UNCHANGED <<server_parts, update_count>>
    /\ next_component' = next_component + 1
    /\ UNCHANGED <<MainDone, pc, parts_without_location, matched_count, updated_count,
                   failed_matches, matched_part>>

\* the end of the loop: the counts are printed
FinishUpdates ==
    /\ pc = "located"
    /\ next_component > Len(component_locations)
    /\ pc' = "updated"
    /\ UNCHANGED <<MainDone, serverVars, passVars>>

(***************************************************************************)
(* update_missing_locations.py: FuzzyLocationUpdater                       *)
(***************************************************************************)
NameSuffixes ==
    <<" capacitor", " resistor", " pot", " potentiometer", " ceramic", " film",
      " electrolytic", " axial", " npn", " pnp", " jfet", " mosfet", " diode",
      " schottky", " germanium", " silicon", " zener", " rectifier", " switch",
      " jack", " footswitch">>

\* for suffix in suffixes: if name.endswith(suffix): name = name[:-len(suffix)].strip()
RECURSIVE StripSuffixes(_, _)
StripSuffixes(name, suffixes) ==
    IF suffixes = <<>> THEN name
    ELSE StripSuffixes(IF EndsWith(name, Head(suffixes))
                       THEN Strip(SubSeq(name, 1, Len(name) - Len(Head(suffixes))))
                       ELSE name,
                       Tail(suffixes))

normalize_name(name) == StripSuffixes(Strip(Lower(name)), NameSuffixes)

\* the first word of the words that holds a digit, "" when none does
RECURSIVE FirstWithDigit(_)
FirstWithDigit(words) ==
    IF words = <<>> THEN EmptyStr
    ELSE IF HasDigit(Head(words)) THEN Head(words)
    ELSE FirstWithDigit(Tail(words))

\* None is written "": every use of the result tests it for truth first
extract_pot_value(name) ==
    LET n == Lower(name)
    IN  IF n # EmptyStr /\ Ch(n, 1) \in {"a", "b", "c"} /\ HasDigit(n)
        THEN Strip(Replace(Replace(From(n, 2), " pot", EmptyStr), "potentiometer", EmptyStr))
        ELSE IF Contains("trimpot", n) \/ Contains("trimmer", n)
        THEN FirstWithDigit(StrippedNonEmpty(Split(
                 Replace(Replace(n, "trimpot", EmptyStr), "trimmer", EmptyStr), " ")))
        ELSE EmptyStr

\* the length of the longest common prefix
RECURSIVE CommonPrefixLen(_, _)
CommonPrefixLen(a, b) ==
    IF a = EmptyStr \/ b = EmptyStr \/ Ch(a, 1) # Ch(b, 1) THEN 0
    ELSE 1 + CommonPrefixLen(From(a, 2), From(b, 2))

\* SequenceMatcher(None, a, b): the characters in the matching blocks.  The
\* longest block is taken (the earliest in a, then the earliest in b), then
\* the same is done on the left of it and on the right of it.
RECURSIVE MatchingChars(_, _)
MatchingChars(a, b) ==
    IF a = EmptyStr \/ b = EmptyStr THEN 0
    ELSE LET size(i, j) == CommonPrefixLen(From(a, i), From(b, j))
             sizes == {size(i, j) : i \in 1..Len(a), j \in 1..Len(b)}
             k == CHOOSE x \in sizes : \A y \in sizes : y <= x
             i == CHOOSE x \in 1..Len(a) :
                      /\ \E j \in 1..Len(b) : size(x, j) = k
                      /\ \A y \in 1..(x - 1) : \A j \in 1..Len(b) : size(y, j) # k
             j == CHOOSE x \in 1..Len(b) :
                      size(i, x) = k /\ \A y \in 1..(x - 1) : size(i, y) # k
         IN  IF k = 0 THEN 0
             ELSE k + MatchingChars(SubSeq(a, 1, i - 1), SubSeq(b, 1, j - 1))
                    + MatchingChars(From(a, i + k), From(b, j + k))

\* SequenceMatcher(None, a.lower(), b.lower()).ratio() = 2.0 * matches / total,
\* 1.0 when both are empty; kept as the fraction
similarity(a, b) ==
    IF Len(a) + Len(b) = 0 THEN [matches |-> 1, total |-> 2]
    ELSE [matches |-> MatchingChars(Lower(a), Lower(b)), total |-> Len(a) + Len(b)]

\* score >= best_score for two ratios
ScoreAtLeast(score, best_score) ==
    score.matches * best_score.total >= best_score.matches * score.total

\* score > best_score for two ratios
ScoreAbove(score, best_score) == score.matches * best_score.total > best_score.matches * score.total

\* Strategy 1: exact match
ExactMatch(component_name, parts) ==
    FirstIndex({k \in 1..Len(parts) : Lower(parts[k].name) = Lower(component_name)})

\* Strategy 2: normalized match
NormalizedMatch(component_name, parts) ==
    FirstIndex({k \in 1..Len(parts) :
                   normalize_name(component_name) = normalize_name(parts[k].name)})

\* Strategy 3: pot value extraction
PotValueMatch(component_name, parts) ==
    IF extract_pot_value(component_name) = EmptyStr THEN 0
    ELSE FirstIndex({k \in 1..Len(parts) :
                        /\ extract_pot_value(parts[k].name) # EmptyStr
                        /\ extract_pot_value(component_name) = extract_pot_value(parts[k].name)})

MinimumScore == [matches |-> 2, total |-> 5]

\* Strategy 4: the loop over the parts from part k on, best = (best_score, best_match)
RECURSIVE BestSimilar(_, _, _, _)
BestSimilar(component_name, parts, k, best) ==
    IF k > Len(parts) THEN best
    ELSE BestSimilar(component_name, parts, k + 1,
             IF ScoreAbove(similarity(component_name, parts[k].name), best.best_score)
             THEN [best_score |-> similarity(component_name, parts[k].name), best_match |-> k]
             ELSE best)

SimilarityMatch(component_name, parts) ==
    BestSimilar(component_name, parts, 1, [best_score |-> MinimumScore, best_match |-> 0]).best_match

\* Strategy 5: one cleaned name contained in the other
ContainmentMatch(component_name, parts) ==
    FirstIndex({k \in 1..Len(parts) :
                   \/ Contains(normalize_name(Lower(component_name)),
                               normalize_name(Lower(parts[k].name)))
                   \/ Contains(normalize_name(Lower(parts[k].name)),
                               normalize_name(Lower(component_name)))})

\* what find_best_match returns: the part, or found = FALSE for None; strategy
\* is the number of the strategy that returned
Returned(strategy, parts, k) ==
    [found |-> k > 0, strategy |-> strategy,
     part |-> IF k > 0 THEN parts[k] ELSE [pk |-> 0, name |-> EmptyStr]]

\* the resolver deciding by position: the earliest part that any strategy picks
FirstPickedOfAny(component_name, inventree_parts) ==
    LET picks == <<ExactMatch(component_name, inventree_parts),
                   NormalizedMatch(component_name, inventree_parts),
                   PotValueMatch(component_name, inventree_parts),
                   SimilarityMatch(component_name, inventree_parts),
                   ContainmentMatch(component_name, inventree_parts)>>
        k == FirstIndex({picks[n] : n \in 1..5} \ {0})
    IN  Returned(FirstIndex({n \in 1..5 : k > 0 /\ picks[n] = k}), inventree_parts, k)

\* the resolver guessing: the first part when no strategy picks one
GuessWhenUnmatched(component_name, inventree_parts) ==
    LET picks == <<ExactMatch(component_name, inventree_parts),
                   NormalizedMatch(component_name, inventree_parts),
                   PotValueMatch(component_name, inventree_parts),
                   SimilarityMatch(component_name, inventree_parts),
                   ContainmentMatch(component_name, inventree_parts)>>
        n == FirstIndex({m \in 1..5 : picks[m] > 0})
    IN  IF n > 0 THEN Returned(n, inventree_parts, picks[n])
        ELSE Returned(5, inventree_parts, IF inventree_parts = <<>> THEN 0 ELSE 1)

find_best_match(component_name, inventree_parts) ==
    IF ExactMatch(component_name, inventree_parts) > 0
    THEN Returned(1, inventree_parts, ExactMatch(component_name, inventree_parts))
    ELSE IF NormalizedMatch(component_name, inventree_parts) > 0
    THEN Returned(2, inventree_parts, NormalizedMatch(component_name, inventree_parts))
    ELSE IF PotValueMatch(component_name, inventree_parts) > 0
    THEN Returned(3, inventree_parts, PotValueMatch(component_name, inventree_parts))
    ELSE IF SimilarityMatch(component_name, inventree_parts) > 0
    THEN Returned(4, inventree_parts, SimilarityMatch(component_name, inventree_parts))
    ELSE IF ContainmentMatch(component_name, inventree_parts) > 0
    THEN Returned(5, inventree_parts, ContainmentMatch(component_name, inventree_parts))
    ELSE Returned(0, inventree_parts, 0)

\* f"Workshop/{unit_name}/{drawer}/Compartment {compartment}"
expected_path(unit, drawer, compartment) ==
    "Workshop/" \o (IF unit = "U1" THEN "Unit 1 (U1)" ELSE "Unit 2 (U2)") \o "/" \o drawer
        \o "/Compartment " \o Dec(compartment)

\* update_missing_locations.main, steps 1 to 3: the parts without a default
\* location and the saved map are loaded.  The script runs after the first
\* updater, or on the map it saved before any part was placed.
LoadParts ==
    /\ \/ pc = "updated"
       \/ pc = "located" /\ next_component = 1
    /\ parts_without_location' =
           SelectSeq(server_parts, LAMBDA part : part.default_location = EmptyStr)
    /\ next_component' = 1
    /\ matched_count' = 0
    /\ updated_count' = 0
    /\ failed_matches' = <<>>
    /\ UNCHANGED matched_part
    /\ pc' = "matching"
    /\ UNCHANGED <<MainDone, serverVars, update_count, error_count>>

\* one pass of the loop of update_missing_locations.main (step 4); the PATCH
\* request may raise, which the loop catches
MatchComponent ==
    /\ pc = "matching"
    /\ next_component <= Len(component_locations)
    /\ LET component_name == component_locations[next_component].component
           locations == component_locations[next_component].locations
           best == find_best_match(component_name, parts_without_location)
           path == expected_path(locations[1].unit, locations[1].drawer,
                                 locations[1].compartment)
       IN  IF locations = <<>>
           THEN UNCHANGED <<server_parts, matched_count, updated_count, failed_matches,
                            matched_part>>
           ELSE /\ matched_part' = best
                /\ IF best.found
                   THEN /\ matched_count' = matched_count + 1
                        /\ UNCHANGED failed_matches
                        /\ IF path \in stock_locations
                           THEN \E raised \in BOOLEAN :
                                   IF raised THEN UNCHANGED <<server_parts, updated_count>>
                                   ELSE /\ server_parts' = update_part_default_location(
                                                server_parts, best.part.pk, path)
                                        /\ updated_count' = updated_count + 1
                           ELSE UNCHANGED <<server_parts, updated_count>>
                   ELSE /\ failed_matches' = Append(failed_matches, component_name)
                        /\ UNCHANGED <<server_parts, matched_count, updated_count>>
    /\ next_component' = next_component + 1
    /\ UNCHANGED <<MainDone, pc, stock_locations, update_count, error_count,
                   parts_without_location>>

\* the end of the loop: the counts and the first failures are printed
FinishMatching ==
    /\ pc = "matching"
    /\ next_component > Len(component_locations)
    /\ pc' = "matched"
    /\ UNCHANGED <<MainDone, serverVars, passVars>>

NextFamilies ==
    \/ ParseResistors \/ MergeReferenceResistors \/ DedupResistors \/ GroupResistors
    \/ ParseCapacitors \/ MergeReferenceCapacitors \/ DedupCapacitors \/ GroupCapacitors
    \/ Diodes \/ Transistors \/ ICs \/ Pots
    \/ LabelResistors \/ LabelCapacitors \/ LabelDiodes \/ LabelTransistors
    \/ LabelICs \/ LabelICSockets \/ LabelPots \/ LabelFixedSections
    \/ ParseLabelData

(***************************************************************************)
(* The inputs: a catalog of up to MaxParts parts of one family, in any     *)
(* order, and reference data listing part of that family's common values.  *)
(***************************************************************************)
MaxParts == 3

Named(path, names) == [k \in 1..Len(names) |-> [name |-> names[k], path |-> path]]

CatalogPool ==
    [resistors |->
         Named("Passives/Resistors",
               <<"10K Resistor", "4.7K Resistor", "100R Resistor", "6.8K Resistor",
                 "10k ohm resistor", "Resistor Kit">>),
     capacitors |->
         Named("Passives/Capacitors",
               <<"22pF Capacitor", "47pF Cap", "1nF Ceramic Cap", "100nF Film Capacitor",
                 "4.7uF Electrolytic Capacitor">>),
     diodes |->
         Named("Active/Diodes", <<"1N4148 Diode", "1N5817 Schottky Diode", "BAT41 Schottky">>)
         \o Named("Active/Diodes/LEDs", <<"Red LED 5mm">>),
     transistors |->
         Named("Active/Transistors/NPN",
               <<"2N3904 NPN", "2N5088 NPN Transistor", "BC547 NPN">>)
         \o Named("Active/Transistors/PNP", <<"2N3906 PNP">>),
     ics |->
         Named("ICs/Op-Amps", <<"TL072 Dual Op-Amp", "JRC4558 Dual Op-Amp">>)
         \o Named("ICs/Delay", <<"PT2399 Delay IC">>)
         \o Named("Active/ICs", <<"LM386 Audio Amp">>),
     pots |->
         Named("Hardware/Potentiometers",
               <<"A100K Pot", "B10K Pot", "10K Trim Pot", "Pot Nut">>)]

ReferencePool ==
    [resistors |-> <<"10R", "1K", "2.2K", "3.3K">>,
     capacitors |-> [ceramic |-> <<"10pF", "100nF", "TBD">>, film |-> <<"100nF">>,
                     electrolytic |-> <<"4.7 uF">>],
     diodes |-> <<"1N4148", "1N34A Germanium", "1N4001 Rectifier", "LED">>,
     transistors |-> [jfet |-> <<"J201">>, npn |-> <<"2N3904", "MPSA18 NPN", "2N2222">>,
                      pnp |-> <<>>, mosfet |-> <<>>],
     ics |-> <<"TL072", "4558", "LM308">>,
     potentiometers |-> [audio_log |-> <<"A500K">>, linear |-> <<"B1K", "B50K">>,
                         trimmers |-> <<"100K">>]]

\* the entries of list at the positions in S, in order
RECURSIVE Pick(_, _, _)
Pick(list, S, n) ==
    IF n = 0 THEN <<>>
    ELSE Pick(list, S, n - 1) \o (IF n \in S THEN <<list[n]>> ELSE <<>>)

SubLists(list) == {Pick(list, S, Len(list)) : S \in SUBSET (1..Len(list))}

NoReference ==
    [resistors |-> <<>>,
     capacitors |-> [ceramic |-> <<>>, film |-> <<>>, electrolytic |-> <<>>],
     diodes |-> <<>>,
     transistors |-> [jfet |-> <<>>, npn |-> <<>>, pnp |-> <<>>, mosfet |-> <<>>],
     ics |-> <<>>,
     potentiometers |-> [audio_log |-> <<>>, linear |-> <<>>, trimmers |-> <<>>]]

\* reference data that lists values of one family only
References(family) ==
    IF family = "capacitors"
    THEN {[NoReference EXCEPT !.capacitors = [ceramic |-> c, film |-> f, electrolytic |-> e]] :
              c \in SubLists(ReferencePool.capacitors.ceramic),
              f \in SubLists(ReferencePool.capacitors.film),
              e \in SubLists(ReferencePool.capacitors.electrolytic)}
    ELSE IF family = "transistors"
    THEN {[NoReference EXCEPT !.transistors = [jfet |-> j, npn |-> n, pnp |-> <<>>,
                                                mosfet |-> <<>>]] :
              j \in SubLists(ReferencePool.transistors.jfet),
              n \in SubLists(ReferencePool.transistors.npn)}
    ELSE IF family = "pots"
    THEN {[NoReference EXCEPT !.potentiometers = [audio_log |-> a, linear |-> l,
                                                   trimmers |-> t]] :
              a \in SubLists(ReferencePool.potentiometers.audio_log),
              l \in SubLists(ReferencePool.potentiometers.linear),
              t \in SubLists(ReferencePool.potentiometers.trimmers)}
    ELSE {[NoReference EXCEPT ![family] = r] : r \in SubLists(ReferencePool[family])}

\* the catalogs of n different parts of a pool, in any order; pk numbers the parts
CatalogsOf(pool, n) ==
    {[k \in 1..n |-> [pk |-> k, name |-> pool[order[k]].name, path |-> pool[order[k]].path]] :
         order \in {o \in [1..n -> 1..Len(pool)] : \A i, j \in 1..n : o[i] = o[j] => i = j}}

Catalogs(pool) == UNION {CatalogsOf(pool, n) : n \in 0..MaxParts}

InitFamilies ==
    /\ LabelGeneratorInit
    /\ NoTools
    /\ warning = FALSE
    /\ pc = Blocks[1]
    /\ \E family \in DOMAIN CatalogPool :
           /\ all_parts \in Catalogs(CatalogPool[family])
           /\ reference \in References(family)
    /\ resistors = <<>>
    /\ resistor_groups = <<>>
    /\ capacitors = <<>>
    /\ cap_groups = <<>>
    /\ diode_labels = <<>>
    /\ diode_groups = <<>>
    /\ trans_by_type = <<>>
    /\ trans_groups = <<>>
    /\ ic_labels = <<>>
    /\ ic_groups = <<>>
    /\ all_pots_values = <<>>
    /\ pot_groups = <<>>

SpecFamilies == InitFamilies /\ [][NextFamilies]_vars

(***************************************************************************)
(* Properties of registration and grouping                                 *)
(***************************************************************************)
BlockNo(p) == CHOOSE k \in 1..Len(Blocks) : Blocks[k] = p

\* the block has run
Past(block) == pc \in Range(Blocks) /\ BlockNo(pc) > BlockNo(block)

RECURSIVE Flatten(_)
Flatten(groups) == IF groups = <<>> THEN <<>> ELSE Head(groups) \o Flatten(Tail(groups))

Count(e, list) == Cardinality({k \in 1..Len(list) : list[k] = e})

\* every group holds 1 to 4 entries, and the groups hold the entries of the
\* list, each as often as the list does
Packs(groups, list) ==
    /\ \A k \in 1..Len(groups) : Len(groups[k]) >= 1 /\ Len(groups[k]) <= 4
    /\ Len(Flatten(groups)) = Len(list)
    /\ \A e \in Range(list) : Count(e, Flatten(groups)) = Count(e, list)

Ascending(entries) == \A k \in 1..(Len(entries) - 1) : entries[k].value <= entries[k + 1].value

Names(parts) == {parts[k].name : k \in 1..Len(parts)}

\* C5: in every family the groups hold between 1 and 4 values each, none is
\* empty, and together they hold every registered value of the family exactly
\* as often as the registered list does: nothing lost, nothing duplicated
C5_GroupsPackTheFamily ==
    /\ Past("resistors.group") => Packs(resistor_groups, resistors)
    /\ Past("capacitors.group") =>
           \A k \in 1..Len(CapTypes) :
               Packs(cap_groups[CapTypes[k]], OfType(capacitors, CapTypes[k]))
    /\ Past("diodes") => Packs(diode_groups, diode_labels)
    /\ Past("transistors") =>
           /\ Len(trans_groups) = Len(trans_by_type)
           /\ \A k \in 1..Len(trans_by_type) :
                  /\ trans_groups[k].trans_type = trans_by_type[k].trans_type
                  /\ Packs(trans_groups[k].groups, trans_by_type[k].parts)
    /\ Past("ics") => Packs(ic_groups, ic_labels)
    /\ Past("pots") => Packs(pot_groups, all_pots_values)

\* six resistors in three groups of 1, 4 and 1, and every family grouped
C5_Witness ==
    /\ pc = "grouped"
    /\ Len(resistors) = 6
    /\ Len(resistor_groups) = 3
    /\ \E k \in 1..3 : Len(resistor_groups[k]) = 4
    /\ \E k \in 1..3 : Len(resistor_groups[k]) = 1

\* C6: the resistor groups, concatenated in output order, are sorted
\* ascending by value, the decades being emitted from the lowest to the highest
C6_BandsAscending == Past("resistors.group") => Ascending(Flatten(resistor_groups))

\* the catalog of the example, with no reference resistors
C7_Example ==
    /\ Len(all_parts) = 3
    /\ Names(all_parts) = {"10K Resistor", "4.7K Resistor", "100R Resistor"}
    /\ reference.resistors = <<>>

\* what the parser returns for a name of the example
C7_Parsed(name) ==
    IF name = "10K Resistor" THEN [value |-> 10000 * Scale, display |-> "10K"]
    ELSE IF name = "4.7K Resistor" THEN [value |-> 4700 * Scale, display |-> "4.7K"]
    ELSE [value |-> 100 * Scale, display |-> "100R"]

C7_ParsedAsStated ==
    Past("resistors") =>
        /\ Len(resistors) = 3
        /\ \A k \in 1..3 :
               /\ resistors[k].part = all_parts[k]
               /\ [value |-> resistors[k].value, display |-> resistors[k].display]
                      = C7_Parsed(all_parts[k].name)

\* C7 as stated: the parser results, 100R in a group of its own, and 4.7K and
\* 10K together in one group of 2
C7_TwoInOneGroup ==
    C7_Example =>
        /\ C7_ParsedAsStated
        /\ Past("resistors.group") =>
               /\ \E k \in 1..Len(resistor_groups) : Displays(resistor_groups[k]) = <<"100R">>
               /\ \E k \in 1..Len(resistor_groups) :
                      Displays(resistor_groups[k]) = <<"4.7K", "10K">>

\* C7: the parser results are as stated, and the three values go to three
\* decades (10000 ohms is not below 10000): 100R, 4.7K and 10K are each a
\* group of 1
C7_ThreeGroupsOfOne ==
    C7_Example =>
        /\ C7_ParsedAsStated
        /\ Past("resistors.group") =>
               /\ Len(resistor_groups) = 3
               /\ {Displays(resistor_groups[k]) : k \in 1..3}
                      = {<<"100R">>, <<"4.7K">>, <<"10K">>}

C7_Witness ==
    /\ C7_Example
    /\ Past("resistors.group")
    /\ Len(resistor_groups) = 3
    /\ all_parts[1].name = "10K Resistor"

\* C8: every capacitor group holds capacitors of one type only, and the
\* groups of a type, concatenated, are sorted ascending by picofarad value
C8_GroupsOfOneSubtype ==
    Past("capacitors.group") =>
        \A k \in 1..Len(CapTypes) :
            LET of_type == Flatten(cap_groups[CapTypes[k]])
            IN  /\ \A i \in 1..Len(of_type) : of_type[i].cap_type = CapTypes[k]
                /\ Ascending(of_type)
                /\ \A i \in 1..Len(capacitors) :
                       capacitors[i].cap_type = CapTypes[k] => capacitors[i] \in Range(of_type)

\* ceramics found out of order in the catalog, and all three types grouped
C8_Witness ==
    /\ Past("capacitors.group")
    /\ Len(all_parts) >= 2
    /\ all_parts[1].name = "1nF Ceramic Cap"
    /\ all_parts[2].name = "22pF Capacitor"
    /\ Len(Flatten(cap_groups["ceramic"])) >= 3
    /\ cap_groups["film"] # <<>>
    /\ cap_groups["electrolytic"] # <<>>

\* C9: once the reference resistors are merged, every reference value has an
\* entry of its own display among the resistors, found in the catalog or added
\* with no stock
C9_EveryReferenceValueRegistered ==
    Past("resistors.reference") =>
        \A k \in 1..Len(reference.resistors) :
            \E i \in 1..Len(resistors) :
                resistors[i].display
                    = parse_resistor_value(reference.resistors[k] \o " Resistor").display

\* C10: once the reference capacitors are merged, every value the reference
\* lists for a type has an entry of that display and that type, whatever
\* entries the other types hold
C10_ReferenceKeyedBySubtype ==
    Past("capacitors.reference") =>
        \A k \in 1..Len(CapTypes) :
            \A j \in 1..Len(reference.capacitors[CapTypes[k]]) :
                \E i \in 1..Len(capacitors) :
                    /\ capacitors[i].cap_type = CapTypes[k]
                    /\ capacitors[i].display
                           = parse_capacitor_value(reference.capacitors[CapTypes[k]][j]
                                                   \o " Capacitor").display

\* the entries of the list that are the first of their key, in list order
FirstOfKey(list, keys) ==
    Pick(list, {i \in 1..Len(list) : \A j \in 1..(i - 1) : keys[j] # keys[i]}, Len(list))

\* no two entries share a key
DistinctKeys(keys) == Cardinality(Range(keys)) = Len(keys)

\* catalog parts come before the parts made up for reference values
DiscoveredFirst(list) ==
    \A i, j \in 1..Len(list) : i < j /\ list[i].part.pk = 0 => list[j].part.pk = 0

\* after is before with its duplicates dropped as the claim states
DedupedAsStated(before, keys_before, after, keys_after) ==
    /\ DistinctKeys(keys_after)
    /\ after = FirstOfKey(before, keys_before)
    /\ DiscoveredFirst(before)
    /\ \A i \in 1..Len(before) :
           before[i].part.pk > 0 =>
               \E k \in 1..Len(after) : keys_after[k] = keys_before[i] /\ after[k].part.pk > 0

\* C11: the deduplication of the resistors (key display) and of the capacitors
\* (key display and type) leaves no two entries of one key, keeps of every key
\* the first entry of the combined list, in the order of the first entries;
\* catalog entries come before reference entries in that list, so a key found
\* in the catalog keeps a catalog entry
C11_DedupKeepsFirst ==
    [][/\ pc = "resistors.dedup" =>
              DedupedAsStated(resistors, ResistorKeys(resistors),
                              resistors', ResistorKeys(resistors'))
       /\ pc = "capacitors.dedup" =>
              DedupedAsStated(capacitors, CapacitorKeys(capacitors),
                              capacitors', CapacitorKeys(capacitors'))]_vars

\* the catalog 4.7uF electrolytic and the reference value "4.7 uF" of the same
\* display: after the deduplication the catalog entry is the one left
C11_Witness ==
    /\ Past("capacitors.dedup")
    /\ reference.capacitors.electrolytic = <<"4.7 uF">>
    /\ \E k \in 1..Len(all_parts) : all_parts[k].name = "4.7uF Electrolytic Capacitor"
    /\ Len(all_parts) = 3
    /\ \E k \in 1..Len(capacitors) :
           /\ capacitors[k].display = "4.7uF"
           /\ capacitors[k].cap_type = "electrolytic"
           /\ capacitors[k].part.pk > 0
    /\ Len(OfType(capacitors, "electrolytic")) = 1

\* C12: no resistor and no capacitor with a value of 0 or less is registered
\* or grouped at any point of the run, whether its name came from the catalog
\* or from the reference data
C12_NoValueBelowOne ==
    /\ \A k \in 1..Len(resistors) : resistors[k].value > 0
    /\ \A k \in 1..Len(Flatten(resistor_groups)) : Flatten(resistor_groups)[k].value > 0
    /\ \A k \in 1..Len(capacitors) : capacitors[k].value > 0
    /\ Past("capacitors.group") =>
           \A t \in 1..Len(CapTypes) :
               \A k \in 1..Len(Flatten(cap_groups[CapTypes[t]])) :
                   Flatten(cap_groups[CapTypes[t]])[k].value > 0

(***************************************************************************)
(* SpecParse: the value parsers alone.  One catalog name is parsed the way *)
(* main() parses it (the resistor parser for a name holding "resistor",    *)
(* the capacitor parser for a name holding "cap"), then the display that   *)
(* came back is parsed again by the same parser.                           *)
(***************************************************************************)
\* mantissas used with every unit, with the units up to K and nF, and with the
\* units R and pF only: the values and the values of their displays stay small
SmallMantissas == {"0.1", "1", "4.7", "10"}

MidMantissas == {"100", "470"}

LargeMantissas == {"1000", "4700"}

ResistorNames ==
    {m \o u \o " Resistor" : m \in SmallMantissas, u \in {"R", "K", "M", "", " K", "k ohm"}}
    \cup {m \o u \o " Resistor" : m \in MidMantissas \cup LargeMantissas, u \in {"R", "K", ""}}

CapacitorNames ==
    {m \o u \o s : m \in SmallMantissas, u \in {"pF", "nF", "uF", " uF", "UF", "µF", "mF"},
                   s \in {" Capacitor", " Film Cap"}}
    \cup {m \o u \o s : m \in MidMantissas, u \in {"pF", "nF"}, s \in {" Capacitor", " Film Cap"}}
    \cup {m \o "pF" \o s : m \in LargeMantissas, s \in {" Capacitor", " Film Cap"}}

\* the parser main() gives a catalog name to
ParserOf(name) == IF Contains("resistor", Lower(name)) THEN "resistor" ELSE "capacitor"

\* one call of a parser, as a record: the name given and the tuple returned
ParserCall(parser, name) ==
    IF parser = "resistor"
    THEN LET r == parse_resistor_value(name)
         IN  [parser |-> parser, name |-> name, value |-> r.value,
              display |-> r.display, cap_type |-> EmptyStr]
    ELSE LET c == parse_capacitor_value(name)
         IN  [parser |-> parser, name |-> name, value |-> c.value,
              display |-> c.display, cap_type |-> c.cap_type]

\* the name of the catalog part is parsed
ParseName ==
    /\ parsed = <<>>
    /\ parsed' = <<ParserCall(ParserOf(all_parts[1].name), all_parts[1].name)>>
    /\ UNCHANGED <<allocVars, mainVars, all_parts, reference, resistors, resistor_groups,
                   capacitors, cap_groups, diode_labels, diode_groups, trans_by_type,
                   trans_groups, ic_labels, ic_groups, all_pots_values, pot_groups, locVars,
                   first_run, apiVars>>

\* the display of the first call is parsed by the same parser
ParseDisplay ==
    /\ Len(parsed) = 1
    /\ parsed' = Append(parsed, ParserCall(parsed[1].parser, parsed[1].display))
    /\ UNCHANGED <<allocVars, mainVars, all_parts, reference, resistors, resistor_groups,
                   capacitors, cap_groups, diode_labels, diode_groups, trans_by_type,
                   trans_groups, ic_labels, ic_groups, all_pots_values, pot_groups, locVars,
                   first_run, apiVars>>

NextParse == ParseName \/ ParseDisplay

InitParse ==
    /\ LabelGeneratorInit
    /\ MainIdle
    /\ NoTools
    /\ \E name \in ResistorNames \cup CapacitorNames :
           all_parts = <<[pk |-> 1, name |-> name, path |-> EmptyStr]>>
    /\ reference = <<>>
    /\ resistors = <<>>
    /\ resistor_groups = <<>>
    /\ capacitors = <<>>
    /\ cap_groups = <<>>
    /\ diode_labels = <<>>
    /\ diode_groups = <<>>
    /\ trans_by_type = <<>>
    /\ trans_groups = <<>>
    /\ ic_labels = <<>>
    /\ ic_groups = <<>>
    /\ all_pots_values = <<>>
    /\ pot_groups = <<>>

SpecParse == InitParse /\ [][NextParse]_vars

\* C13: a name that parses to a value above 0: parsing the display again with
\* the same parser gives the same numeric value and the same display
C13_ParsingIdempotent ==
    (Len(parsed) = 2 /\ parsed[1].value > 0) =>
        /\ parsed[2].value = parsed[1].value
        /\ parsed[2].display = parsed[1].display

(***************************************************************************)
(* Properties of the label sheet of a run of main() and of its reading     *)
(***************************************************************************)
\* the label is one of the texts of the sheet
OnSheet(text) ==
    \E i \in 1..Len(labels) : labels[i].Label_Top = text \/ labels[i].Label_Bottom = text

\* every group of the list has its label f"{prefix}: {joined items}" on the
\* sheet, and parse_label_components gives the items of the group back
RoundTrips(prefix, groups) ==
    \A k \in 1..Len(groups) :
        LET text == prefix \o ": " \o format_4x_compartment_label(groups[k])
        IN  OnSheet(text) /\ parse_label_components(text) = groups[k]

\* C14: for every label built as "<FamilyPrefix>: " followed by the displays
\* of a group joined with "  |  ", parse_label_components returns exactly the
\* ordered list of the displays the label was built from
C14_LabelRoundTrip ==
    /\ Past("resistors.labels") => RoundTrips("R", GroupDisplays(resistor_groups))
    /\ Past("capacitors.labels") =>
           /\ RoundTrips("Caps Cer", GroupDisplays(cap_groups["ceramic"]))
           /\ RoundTrips("Caps Film", GroupDisplays(cap_groups["film"]))
           /\ RoundTrips("Caps Elect", GroupDisplays(cap_groups["electrolytic"]))
    /\ Past("diodes.labels") => RoundTrips("Diodes", diode_groups)
    /\ Past("transistors.labels") =>
           \A k \in 1..Len(trans_groups) :
               RoundTrips("Q " \o trans_groups[k].trans_type, trans_groups[k].groups)
    /\ Past("ics.labels") => RoundTrips("IC", ic_groups)
    /\ Past("pots.labels") => RoundTrips("Pots", pot_groups)

\* a sheet with two groups of resistors, the first of two displays or more,
\* read back by parse_label_data
C14_Witness ==
    /\ pc = "located"
    /\ Len(resistor_groups) >= 2
    /\ Len(resistor_groups[1]) >= 2
    /\ labels[1].Label_Top = "R: " \o format_4x_compartment_label(Displays(resistor_groups[1]))
    /\ parse_label_components(labels[1].Label_Top) = Displays(resistor_groups[1])
    /\ parse_label_components(labels[1].Label_Bottom) = Displays(resistor_groups[2])

(***************************************************************************)
(* SpecResolve: the two location updaters on a sheet main() wrote and a    *)
(* catalog of parts                                                        *)
(***************************************************************************)
\* the catalogs main() reads: parts of several families, pk in catalog order
Numbered(list) ==
    [k \in 1..Len(list) |-> [pk |-> k, name |-> list[k].name, path |-> list[k].path]]

SheetCatalogs ==
    {<<>>,
     Numbered(Named("Passives/Resistors", <<"100R Resistor", "10K Resistor">>)
              \o Named("Hardware/Potentiometers", <<"A100K Pot">>)),
     Numbered(Named("Passives/Capacitors",
                    <<"22pF Capacitor", "100nF Capacitor", "100nF Film Capacitor">>)
              \o Named("ICs/Op-Amps", <<"TL072 Dual Op-Amp">>)),
     Numbered(Named("Active/Diodes", <<"1N5817 Schottky Diode">>)
              \o Named("Active/Transistors/NPN", <<"2N3904 NPN">>)
              \o Named("Passives/Resistors", <<"10K Resistor">>))}

\* the catalogs of the server: names in catalog order, the second of them
\* placed already when the flag says so
PartLists ==
    {<<>>,
     <<"B100K Pot", "A100K Pot", "100K Trimmer">>,
     <<"100K Trimmer", "B100K Pot">>,
     <<"10K Pot", "10K">>,
     <<"TL071">>,
     <<"TL072CP", "TL072CN">>,
     <<"1N5817GX", "1N5817G">>,
     <<"10K Resistor", "100nF Capacitor", "100nF Film Capacitor">>,
     <<"Dual TL072 Op-Amp">>,
     <<"AC107">>,
     <<"Red LED 5mm">>}

ServerParts(names, placed) ==
    [k \in 1..Len(names) |->
        [pk |-> k, name |-> names[k],
         default_location |-> IF placed /\ k = 2 THEN "Workshop/Unit 1 (U1)/S99/Compartment 1"
                              ELSE EmptyStr]]

InitResolve ==
    /\ LabelGeneratorInit
    /\ pc = Blocks[1]
    /\ warning = FALSE
    /\ all_parts \in SheetCatalogs
    /\ reference = NoReference
    /\ resistors = <<>>
    /\ resistor_groups = <<>>
    /\ capacitors = <<>>
    /\ cap_groups = <<>>
    /\ diode_labels = <<>>
    /\ diode_groups = <<>>
    /\ trans_by_type = <<>>
    /\ trans_groups = <<>>
    /\ ic_labels = <<>>
    /\ ic_groups = <<>>
    /\ all_pots_values = <<>>
    /\ pot_groups = <<>>
    /\ parsed = <<>>
    /\ first_run = NoRun
    /\ StoreIdle
    /\ MoverIdle
    /\ component_locations = <<>>
    /\ \E names \in PartLists, placed \in BOOLEAN : server_parts = ServerParts(names, placed)
    /\ stock_locations = {}
    /\ PassesIdle

NextResolve ==
    \/ NextFamilies \/ UpdateComponent \/ FinishUpdates
    \/ LoadParts \/ MatchComponent \/ FinishMatching

SpecResolve == InitResolve /\ [][NextResolve]_vars

(***************************************************************************)
(* SpecMatch: update_missing_locations.main on a saved map of one          *)
(* component; the resolver is applied to the name and the catalog           *)
(***************************************************************************)
\* the component names of the saved maps
ComponentNames ==
    {"A100K", "B100K", "10K", "100nF", "TL072", "tl072cp", "1N5817", "1N5817G", "2N3904",
     "100K Trimmer", "Op-Amp", "BC107"}

\* component_location_map.json: one component in the first compartment of M1
SavedMap(name) ==
    <<[component |-> name,
       locations |-> <<[unit |-> "U2", drawer |-> "M1", compartment |-> 1]>>]>>

InitMatch ==
    /\ LabelGeneratorInit
    /\ pc = "located"
    /\ warning = FALSE
    /\ all_parts = <<>>
    /\ reference = NoReference
    /\ resistors = <<>>
    /\ resistor_groups = <<>>
    /\ capacitors = <<>>
    /\ cap_groups = <<>>
    /\ diode_labels = <<>>
    /\ diode_groups = <<>>
    /\ trans_by_type = <<>>
    /\ trans_groups = <<>>
    /\ ic_labels = <<>>
    /\ ic_groups = <<>>
    /\ all_pots_values = <<>>
    /\ pot_groups = <<>>
    /\ parsed = <<>>
    /\ first_run = NoRun
    /\ StoreIdle
    /\ MoverIdle
    /\ \E name \in ComponentNames : component_locations = SavedMap(name)
    /\ \E names \in PartLists, placed \in BOOLEAN : server_parts = ServerParts(names, placed)
    /\ \E created \in BOOLEAN :
           stock_locations = IF created THEN PathsTo(CompartmentNames("U2", "M1", 1)) ELSE {}
    /\ PassesIdle

NextMatch == LoadParts \/ MatchComponent \/ FinishMatching

SpecMatch == InitMatch /\ [][NextMatch]_vars

(***************************************************************************)
(* Properties of the resolver                                              *)
(***************************************************************************)
\* find_best_match has been applied to the component before next_component
Resolved == pc \in {"matching", "matched"} /\ next_component > 1

ResolvedName == component_locations[next_component - 1].component

\* the candidates a strategy accepts, by position in the list
AcceptedAt(strategy, name, parts) ==
    {k \in 1..Len(parts) :
        CASE strategy = 1 -> Lower(parts[k].name) = Lower(name)
          [] strategy = 2 -> normalize_name(name) = normalize_name(parts[k].name)
          [] strategy = 3 -> /\ extract_pot_value(name) # EmptyStr
                             /\ extract_pot_value(parts[k].name) = extract_pot_value(name)
          [] strategy = 4 -> ScoreAbove(similarity(name, parts[k].name), MinimumScore)
          [] strategy = 5 -> \/ Contains(normalize_name(Lower(name)),
                                         normalize_name(Lower(parts[k].name)))
                             \/ Contains(normalize_name(Lower(parts[k].name)),
                                         normalize_name(Lower(name)))}

\* of the candidates the similarity strategy accepts, those of the highest score
TopScored(name, parts) ==
    {k \in AcceptedAt(4, name, parts) :
        \A j \in 1..Len(parts) :
            ~ScoreAbove(similarity(name, parts[j].name), similarity(name, parts[k].name))}

\* the lowest-numbered strategy that accepts a candidate, 0 when none does
LowestStrategy(name, parts) ==
    FirstIndex({n \in 1..5 : AcceptedAt(n, name, parts) # {}})

\* C15 as stated: the result is the first candidate, in list order, accepted
\* by the lowest-numbered strategy that accepts any candidate.
C15_FirstAcceptedAtLowest ==
    Resolved =>
        LET n == LowestStrategy(ResolvedName, parts_without_location)
        IN  matched_part =
                Returned(n, parts_without_location,
                         IF n = 0 THEN 0
                         ELSE FirstIndex(AcceptedAt(n, ResolvedName, parts_without_location)))

\* C15: the strategies are tried in the order exact, normalized, pot value,
\* similarity, containment, each over the whole list; the result is the first
\* candidate accepted by the lowest-numbered strategy that accepts any, where
\* the similarity strategy accepts only the candidates of the highest score
\* above 0.8.  An exact match is returned whenever there is one, and "A100K"
\* against "B100K Pot", "A100K Pot", "100K Trimmer" gives "A100K Pot" by
\* strategy 2.
C15_StrategiesInOrder ==
    Resolved =>
        LET parts == parts_without_location
            n == LowestStrategy(ResolvedName, parts)
            accepted == IF n = 4 THEN TopScored(ResolvedName, parts)
                        ELSE IF n = 0 THEN {}
                        ELSE AcceptedAt(n, ResolvedName, parts)
        IN  /\ matched_part = Returned(n, parts, FirstIndex(accepted))
            /\ AcceptedAt(1, ResolvedName, parts) # {} =>
                   /\ matched_part.found
                   /\ Lower(matched_part.part.name) = Lower(ResolvedName)
            /\ (/\ ResolvedName = "A100K"
                /\ [k \in 1..Len(parts) |-> parts[k].name]
                       = <<"B100K Pot", "A100K Pot", "100K Trimmer">>) =>
                   /\ matched_part.part.name = "A100K Pot"
                   /\ matched_part.strategy = 2

\* "A100K" has been resolved against the three potentiometer parts
C15_Witness ==
    /\ Resolved
    /\ ResolvedName = "A100K"
    /\ [k \in 1..Len(parts_without_location) |-> parts_without_location[k].name]
           = <<"B100K Pot", "A100K Pot", "100K Trimmer">>
    /\ matched_part.found
    /\ matched_part.part.name = "A100K Pot"

\* the similarity strategy is reached: the first three strategies accept nothing
SimilarityReached ==
    /\ Resolved
    /\ \A n \in 1..3 : AcceptedAt(n, ResolvedName, parts_without_location) = {}

\* the candidates of the maximum similarity score, by position in the list
MaximumScored(name, parts) ==
    {k \in 1..Len(parts) :
        \A j \in 1..Len(parts) :
            similarity(name, parts[j].name).matches * similarity(name, parts[k].name).total
                <= similarity(name, parts[k].name).matches * similarity(name, parts[j].name).total}

\* C16: when the similarity strategy is reached, it returns the candidate of
\* the maximum score if that score, 2 * matches / total, is strictly greater
\* than 0.8, the earliest in the list of those that share the maximum; with a
\* maximum of 0.8 or less it returns nothing.
C16_MaximumAboveThreshold ==
    SimilarityReached =>
        LET parts == parts_without_location
            top == MaximumScored(ResolvedName, parts)
            first == FirstIndex(top)
            score == similarity(ResolvedName, parts[first].name)
        IN  IF first > 0 /\ 10 * score.matches > 4 * score.total
            THEN matched_part = Returned(4, parts, first)
            ELSE matched_part.strategy \in {0, 5}

\* two candidates share a maximum above 0.8 and the earlier one was returned
C16_Witness ==
    /\ SimilarityReached
    /\ Cardinality(MaximumScored(ResolvedName, parts_without_location)) = 2
    /\ matched_part.strategy = 4
    /\ matched_part.part = parts_without_location[1]

\* a maximum of exactly 0.8 was rejected
C16_AtThreshold ==
    /\ SimilarityReached
    /\ parts_without_location # <<>>
    /\ LET score == similarity(ResolvedName, parts_without_location[1].name)
       IN  /\ MaximumScored(ResolvedName, parts_without_location) = {1}
           /\ 10 * score.matches = 4 * score.total
    /\ ~matched_part.found

(***************************************************************************)
(* Properties of the reconciliation passes                                 *)
(***************************************************************************)
\* the matching loop is at a component that has locations and that no
\* strategy accepts a part for
AtUnmatched ==
    /\ pc = "matching"
    /\ next_component <= Len(component_locations)
    /\ component_locations[next_component].locations # <<>>
    /\ \A n \in 1..5 :
           AcceptedAt(n, component_locations[next_component].component,
                      parts_without_location) = {}

\* C17: when no strategy accepts a part for a component, the resolver returns
\* no match, and the pass appends the component name to the failure list,
\* updates no default location and no success counter, and goes on to the
\* next component without an exception.
C17_UnmatchedIsRecorded ==
    [][AtUnmatched =>
          /\ ~matched_part'.found
          /\ failed_matches' =
                 Append(failed_matches, component_locations[next_component].component)
          /\ server_parts' = server_parts
          /\ matched_count' = matched_count
          /\ updated_count' = updated_count
          /\ pc' = "matching"
          /\ next_component' = next_component + 1]_vars

\* the first component of the sheet was not matched, and a later one was
C17_Witness ==
    /\ pc = "matching"
    /\ parts_without_location # <<>>
    /\ failed_matches # <<>>
    /\ failed_matches[1] = component_locations[1].component
    /\ matched_count > 0
    /\ next_component > 2

\* the items of half h (1 top, 2 bottom) of row r of the sheet that the map
\* takes: none when the half has no label or no drawer id
ItemsOfHalf(r, h) ==
    LET label == IF h = 1 THEN labels[r].Label_Top ELSE labels[r].Label_Bottom
        drawer == IF h = 1 THEN labels[r].Bin_Top ELSE labels[r].Bin_Bottom
    IN  IF label # EmptyStr /\ drawer # EmptyStr THEN parse_label_components(label) ELSE <<>>

\* where a display value stands on the sheet: (row, half, position in the label)
Occurrences(comp) ==
    UNION {{<<r, h, i>> : i \in {j \in 1..Len(ItemsOfHalf(r, h)) : ItemsOfHalf(r, h)[j] = comp}} :
              r \in 1..Len(labels), h \in {1, 2}}

\* o1 is earlier on the sheet than o2
EarlierOnSheet(o1, o2) ==
    \/ o1[1] < o2[1]
    \/ o1[1] = o2[1] /\ o1[2] < o2[2]
    \/ o1[1] = o2[1] /\ o1[2] = o2[2] /\ o1[3] < o2[3]

\* the list of an entry of the map is its occurrences in sheet order
ListedInSheetOrder(entry) ==
    LET occ == Occurrences(entry.component)
    IN  /\ Len(entry.locations) = Cardinality(occ)
        /\ occ # {}
        /\ \A o \in occ :
               entry.locations[Cardinality({p \in occ : EarlierOnSheet(p, o)}) + 1] =
                   [unit |-> labels[o[1]].Unit,
                    drawer |-> IF o[2] = 1 THEN labels[o[1]].Bin_Top ELSE labels[o[1]].Bin_Bottom,
                    compartment |-> o[3]]

\* the map has one entry for every display value of the sheet, each in sheet order
MapInSheetOrder ==
    /\ \A k \in 1..Len(component_locations) : ListedInSheetOrder(component_locations[k])
    /\ \A j, k \in 1..Len(component_locations) :
           component_locations[j].component = component_locations[k].component => j = k
    /\ \A r \in 1..Len(labels), h \in {1, 2} :
           \A i \in 1..Len(ItemsOfHalf(r, h)) :
               \E k \in 1..Len(component_locations) :
                   component_locations[k].component = ItemsOfHalf(r, h)[i]

\* the pathstring of the first location listed for the component the loop is at
FirstListedPath ==
    LET first == component_locations[next_component].locations[1]
    IN  PathString(CompartmentNames(first.unit, first.drawer, first.compartment))

\* C19: the map built from the sheet lists, for each display value, its
\* locations in sheet order (rows in file order, top before bottom, the
\* compartment being the position of the value in its label); the passes
\* leave the sheet and the map as they are, and every default location either
\* pass sets is the first location listed for the component the pass is at.
C19_FirstListedIsDefault ==
    [][/\ (pc = "located" /\ next_component = 1) => MapInSheetOrder
       /\ pc \in {"located", "updated", "matching"} =>
              /\ UNCHANGED <<labels, component_locations>>
              /\ \A k \in 1..Len(server_parts) :
                     server_parts'[k] # server_parts[k] =>
                         server_parts'[k].default_location = FirstListedPath]_vars

\* a value listed at two places of the sheet; each pass gave a part the first
\* of them as its default location
C19_Witness ==
    /\ pc = "matching"
    /\ update_count > 0
    /\ updated_count > 0
    /\ \E e \in 1..Len(component_locations) :
           LET locations == component_locations[e].locations
               path == PathString(CompartmentNames(locations[1].unit, locations[1].drawer,
                                                   locations[1].compartment))
           IN  /\ Len(locations) >= 2
               /\ locations[1].drawer # locations[2].drawer
               /\ Cardinality({k \in 1..Len(server_parts) :
                                   server_parts[k].default_location = path}) = 2

(***************************************************************************)
(* SpecRerun: main() run twice on the same catalog and reference data      *)
(***************************************************************************)
\* the generator of the first run still in use
KeptGenerator == Gen

\* generator = LabelGenerator()
NewGenerator ==
    [u1 |-> 1, large |-> 1, tall |-> 1, medium |-> 1, labels |-> <<>>,
     ret |-> [fam |-> "none", n |-> 0, top |-> EmptyStr, bottom |-> EmptyStr],
     issued |-> [f \in Families |-> <<>>]]

\* what a run of main() leaves: the sheet and the four counters
RunResult ==
    [done |-> TRUE, labels |-> labels,
     counters |-> <<u1_drawer_num, u2_large_num, u2_tall_num, u2_medium_num>>]

\* main() is started again after a run has ended: the catalog and the
\* reference are read again and are what they were, everything else is new
Rerun ==
    /\ pc = "grouped"
    /\ ~first_run.done
    /\ first_run' = RunResult
    /\ SetGen(NewGenerator)
    /\ pc' = Blocks[1]
    /\ warning' = FALSE
    /\ resistors' = <<>>
    /\ resistor_groups' = <<>>
    /\ capacitors' = <<>>
    /\ cap_groups' = <<>>
    /\ diode_labels' = <<>>
    /\ diode_groups' = <<>>
    /\ trans_by_type' = <<>>
    /\ trans_groups' = <<>>
    /\ ic_labels' = <<>>
    /\ ic_groups' = <<>>
    /\ all_pots_values' = <<>>
    /\ pot_groups' = <<>>
    /\ UNCHANGED <<all_parts, reference, parsed, locVars, apiVars>>

InitRerun ==
    /\ LabelGeneratorInit
    /\ NoTools
    /\ warning = FALSE
    /\ pc = Blocks[1]
    /\ all_parts \in SheetCatalogs \cup Catalogs(CatalogPool.ics)
    /\ reference \in {NoReference, ReferencePool}
    /\ resistors = <<>>
    /\ resistor_groups = <<>>
    /\ capacitors = <<>>
    /\ cap_groups = <<>>
    /\ diode_labels = <<>>
    /\ diode_groups = <<>>
    /\ trans_by_type = <<>>
    /\ trans_groups = <<>>
    /\ ic_labels = <<>>
    /\ ic_groups = <<>>
    /\ all_pots_values = <<>>
    /\ pot_groups = <<>>

NextRerun == NextFamilies \/ Rerun

SpecRerun == InitRerun /\ [][NextRerun]_vars

RecordsOf(prefix) ==
    SelectSeq(labels, LAMBDA l : StartsAt(l.Label_Top, 1, prefix))

\* the records are the groups taken two at a time: record k has group 2k-1 on
\* top and group 2k at the bottom, and the last record of an odd number of
\* groups has no bottom drawer id and no bottom label
PairedTwoByTwo(records, prefix, groups) ==
    /\ Len(records) = (Len(groups) + 1) \div 2
    /\ \A k \in 1..Len(records) :
           /\ 2 * k - 1 <= Len(groups)
           /\ records[k].Label_Top =
                  prefix \o ": " \o format_4x_compartment_label(groups[2 * k - 1])
           /\ IF 2 * k <= Len(groups)
              THEN records[k].Label_Bottom =
                       prefix \o ": " \o format_4x_compartment_label(groups[2 * k])
              ELSE records[k].Bin_Bottom = EmptyStr /\ records[k].Label_Bottom = EmptyStr

\* the groups of the capacitors in the order their labels are written
CapacitorGroupSequence ==
    GroupDisplays(cap_groups["ceramic"]) \o GroupDisplays(cap_groups["film"])
        \o GroupDisplays(cap_groups["electrolytic"])

\* C20 as stated, for the capacitors: the family has ceil(n/2) records for its
\* n groups.
C20_CapacitorFamilyPairs ==
    Past("capacitors.labels") =>
        Len(RecordsOf("Caps ")) = (Len(CapacitorGroupSequence) + 1) \div 2

\* C20: the groups that share a label prefix (the resistors, the capacitors
\* of one type, the diodes, the transistors of one type, the ICs, the
\* potentiometers) are put on the sheet two at a time: the k-th record of the
\* prefix has group 2k-1 on top and group 2k at the bottom, n groups give
\* ceil(n/2) records, and with n odd the last record has an empty bottom
\* drawer id and an empty bottom label.
C20_GroupsPairedPerPrefix ==
    /\ Past("resistors.labels") =>
           PairedTwoByTwo(RecordsOf("R: "), "R", GroupDisplays(resistor_groups))
    /\ Past("capacitors.labels") =>
           /\ PairedTwoByTwo(RecordsOf("Caps Cer: "), "Caps Cer",
                             GroupDisplays(cap_groups["ceramic"]))
           /\ PairedTwoByTwo(RecordsOf("Caps Film: "), "Caps Film",
                             GroupDisplays(cap_groups["film"]))
           /\ PairedTwoByTwo(RecordsOf("Caps Elect: "), "Caps Elect",
                             GroupDisplays(cap_groups["electrolytic"]))
    /\ Past("diodes.labels") => PairedTwoByTwo(RecordsOf("Diodes: "), "Diodes", diode_groups)
    /\ Past("transistors.labels") =>
           \A k \in 1..Len(trans_groups) :
               PairedTwoByTwo(RecordsOf("Q " \o trans_groups[k].trans_type \o ": "),
                              "Q " \o trans_groups[k].trans_type, trans_groups[k].groups)
    /\ Past("ics.labels") => PairedTwoByTwo(RecordsOf("IC: "), "IC", ic_groups)
    /\ Past("pots.labels") => PairedTwoByTwo(RecordsOf("Pots: "), "Pots", pot_groups)

\* three groups of resistors on two records, the second with the top half only
C20_Witness ==
    /\ Past("resistors.labels")
    /\ Len(resistor_groups) = 3
    /\ Len(RecordsOf("R: ")) = 2
    /\ RecordsOf("R: ")[1].Label_Bottom =
           "R: " \o format_4x_compartment_label(Displays(resistor_groups[2]))
    /\ RecordsOf("R: ")[2].Label_Top =
           "R: " \o format_4x_compartment_label(Displays(resistor_groups[3]))
    /\ RecordsOf("R: ")[2].Bin_Bottom = EmptyStr
    /\ RecordsOf("R: ")[2].Label_Bottom = EmptyStr

(***************************************************************************)
(* update_inventree_locations: _get_or_create_location                     *)
(***************************************************************************)

MaxCalls == 3         \* calls of _get_or_create_location in one run

\* f"{parent_id}:{name}"; a parent_id of None is 0 here
cache_key(name, parent_id) ==
    (IF parent_id = 0 THEN "None" ELSE Dec(parent_id)) \o ":" \o name

\* the search that finds nothing
NoLocationFound(name, parent_id, locs) == <<>>

\* GET /api/stock/location/ with name, and with parent when parent_id is truthy
SearchLocations(name, parent_id, locs) ==
    SelectSeq(locs, LAMBDA loc : /\ loc.name = name
                                 /\ parent_id # 0 => loc.parent = parent_id)

\* POST /api/stock/location/: the server gives the next pk
CreateLocation(name, parent_id, locs) ==
    Append(locs, [pk |-> Len(locs) + 1, name |-> name, parent |-> parent_id])

CachedAt(key) == FirstIndex({k \in 1..Len(location_cache) : location_cache[k].key = key})

\* a location of this name under this parent is in the store
Exists(name, parent_id) ==
    \E k \in 1..Len(server_locations) :
        server_locations[k].name = name /\ server_locations[k].parent = parent_id

Called(name, parent_id, id, how) ==
    calls' = Append(calls, [name |-> name, parent |-> parent_id, id |-> id, how |-> how,
                            existed |-> Exists(name, parent_id)])

\* one call of _get_or_create_location; a request may raise
GetOrCreateLocation ==
    /\ Len(calls) < MaxCalls
    /\ \E name \in {"Workshop", "S1"},
          parent_id \in {0} \cup {server_locations[k].pk : k \in 1..Len(server_locations)},
          raised \in BOOLEAN :
          LET key == cache_key(name, parent_id)
              results == SearchLocations(name, parent_id, server_locations)
          IN  IF CachedAt(key) # 0
              THEN /\ ~raised
                   /\ Called(name, parent_id, location_cache[CachedAt(key)].id, "cached")
                   /\ UNCHANGED <<server_locations, location_cache>>
              ELSE IF raised
              THEN /\ Called(name, parent_id, 0, "raised")
                   /\ UNCHANGED <<server_locations, location_cache>>
              ELSE IF results # <<>>
              THEN /\ Called(name, parent_id, results[1].pk, "found")
                   /\ location_cache' = Append(location_cache, [key |-> key, id |-> results[1].pk])
                   /\ UNCHANGED server_locations
              ELSE /\ Called(name, parent_id, Len(server_locations) + 1, "created")
                   /\ server_locations' = CreateLocation(name, parent_id, server_locations)
                   /\ location_cache' =
                          Append(location_cache, [key |-> key, id |-> Len(server_locations) + 1])
    /\ UNCHANGED <<allocVars, mainVars, all_parts, reference, resistors, resistor_groups,
                   capacitors, cap_groups, diode_labels, diode_groups, trans_by_type,
                   trans_groups, ic_labels, ic_groups, all_pots_values, pot_groups, parsed,
                   locVars, first_run, moverVars>>

Location(pk, name, parent) == [pk |-> pk, name |-> name, parent |-> parent]

\* the stores a run starts from: empty, the hierarchy in part, a Workshop
\* below another location, a drawer name under two parents
LocationStores ==
    { <<>>,
      <<Location(1, "Workshop", 0)>>,
      <<Location(1, "Workshop", 0), Location(2, "Unit 1 (U1)", 1), Location(3, "S1", 2)>>,
      <<Location(1, "Garage", 0), Location(2, "Workshop", 1)>>,
      <<Location(1, "Workshop", 0), Location(2, "S1", 1), Location(3, "S1", 2)>> }

InitLocations ==
    /\ LabelGeneratorInit
    /\ MainIdle
    /\ NoPartsRead
    /\ UpdatersIdle
    /\ MoverIdle
    /\ server_locations \in LocationStores
    /\ location_cache = <<>>
    /\ calls = <<>>

NextLocations == GetOrCreateLocation

SpecLocations == InitLocations /\ [][NextLocations]_vars

Returned21 == {k \in 1..Len(calls) : calls[k].how # "raised"}

SameKey(i, j) == calls[i].name = calls[j].name /\ calls[i].parent = calls[j].parent

\* C21: the calls with the same name and the same parent return the same id,
\* at most one of them creates a location, none creates a location of a name
\* and parent the store already had, and the id returned is the id of a
\* location of that name in the store
C21_GetOrCreateIdempotent ==
    /\ \A i \in Returned21, j \in Returned21 : SameKey(i, j) => calls[i].id = calls[j].id
    /\ \A i \in Returned21, j \in Returned21 :
           (SameKey(i, j) /\ calls[i].how = "created" /\ calls[j].how = "created") => i = j
    /\ \A i \in Returned21 : calls[i].how = "created" => ~calls[i].existed
    /\ \A i \in Returned21 :
           \E k \in 1..Len(server_locations) :
               /\ server_locations[k].pk = calls[i].id
               /\ server_locations[k].name = calls[i].name

\* a drawer is created under an existing parent, then asked for twice more
C21_Witness ==
    /\ Len(calls) = 3
    /\ calls[1].how = "created"
    /\ calls[1].parent # 0
    /\ calls[2].how = "cached"
    /\ calls[3].how = "cached"
    /\ SameKey(1, 2)
    /\ SameKey(1, 3)
    /\ calls[2].id = calls[1].id
    /\ calls[3].id = calls[1].id

(***************************************************************************)
(* generate_labels: the decade bands of the resistor groups                *)
(***************************************************************************)

\* the number of the decade bounds 10, 100, ..., 1000000 a value has reached
BandNo(value) ==
    Cardinality({b \in {10, 100, 1000, 10000, 100000, 1000000} : value >= b * Scale})

BandsOf(group) == {BandNo(group[k].value) : k \in 1..Len(group)}

\* C22: every group of resistors holds values of one decade band only, and
\* within a band only the last group may hold fewer than 4 values: a group
\* that is not full is closed where its band ends
C22_GroupsWithinOneBand ==
    Past("resistors.group") =>
        /\ \A i \in 1..Len(resistor_groups) : Cardinality(BandsOf(resistor_groups[i])) = 1
        /\ \A i \in 1..Len(resistor_groups), j \in 1..Len(resistor_groups) :
               (i < j /\ BandsOf(resistor_groups[i]) = BandsOf(resistor_groups[j]))
                   => Len(resistor_groups[i]) = GroupSize

\* a group of fewer than 4 values is followed by a group of the next values,
\* which are of another band
C22_Witness ==
    /\ Past("resistors.group")
    /\ \E i \in 1..(Len(resistor_groups) - 1) :
           /\ Len(resistor_groups[i]) < GroupSize
           /\ BandsOf(resistor_groups[i]) # BandsOf(resistor_groups[i + 1])
    /\ \E i \in 1..Len(resistor_groups) : Len(resistor_groups[i]) > 1

(***************************************************************************)
(* generate_labels: the display of a parsed resistor                       *)
(***************************************************************************)

\* the mantissa parse_resistor_value matched in a name
MantissaOf(name) == ResistorMatch(Strip(Replace(Upper(name), "OHM", ""))).value_str

\* C23: the display of a parsed resistor follows from its value in ohms:
\* below 1000 it is the number followed by R, from 1000 on it is the mantissa
\* as matched followed by K or M
C23_DisplayByValue ==
    \A k \in 1..Len(parsed) :
        (parsed[k].parser = "resistor" /\ parsed[k].value > 0) =>
            IF parsed[k].value < 1000 * Scale
            THEN parsed[k].display = NumberStr(parsed[k].value) \o "R"
            ELSE parsed[k].display \in {MantissaOf(parsed[k].name) \o "K",
                                        MantissaOf(parsed[k].name) \o "M"}

(***************************************************************************)
(* generate_labels: the units of a capacitor value                         *)
(***************************************************************************)

\* the multipliers to pF of the units the parser is to recognise
UnitMultipliers ==
    { [unit |-> "pf", times |-> 1], [unit |-> "nf", times |-> 1000],
      [unit |-> "uf", times |-> 1000000], [unit |-> "µf", times |-> 1000000] }

\* the number a name starts its value with, and where the unit begins
LeadingNumber(s) ==
    [value_str |-> SubSeq(s, FirstDigit(s), NumberEnd(s, FirstDigit(s)) - 1),
     unit_at |-> SpacesEnd(s, NumberEnd(s, FirstDigit(s)))]

SubtypeOfName(s) ==
    IF Contains("film", s) THEN "film"
    ELSE IF Contains("elec", s) THEN "electrolytic"
    ELSE "ceramic"

\* C24: a capacitor name whose number is followed by pF, nF, uF or µF, in any
\* case, parses to the number times 1, 1000, 1000000, 1000000 pF, and its
\* subtype is film, electrolytic or ceramic by the words of the name
C24_UnitsConverted ==
    \A k \in 1..Len(parsed) :
        parsed[k].parser = "capacitor" =>
            \A m \in UnitMultipliers :
                StartsAt(Lower(parsed[k].name), LeadingNumber(Lower(parsed[k].name)).unit_at,
                         m.unit)
                => /\ parsed[k].value =
                          ToFloat(LeadingNumber(Lower(parsed[k].name)).value_str) * m.times
                   /\ parsed[k].cap_type = SubtypeOfName(Lower(parsed[k].name))

(***************************************************************************)
(* update_missing_locations: the names strategy 3 applies to               *)
(***************************************************************************)

\* a taper letter a, b or c with a digit right after it, or a trimmer
TaperOrTrimmer(name) ==
    \/ Len(name) >= 2 /\ Ch(name, 1) \in {"a", "b", "c"} /\ IsDigit(Ch(name, 2))
    \/ Contains("trimpot", name)
    \/ Contains("trimmer", name)

\* C25: strategy 3 returns a part only for a component name that starts with
\* a taper letter followed at once by a digit or that holds "trimpot" or
\* "trimmer"
C25_PotStrategyForPotNamesOnly ==
    (Resolved /\ matched_part.found /\ matched_part.strategy = 3)
        => TaperOrTrimmer(Lower(ResolvedName))

(***************************************************************************)
(* generate_labels: what the name cleaners take away                       *)
(***************************************************************************)

IsPrefix(a, b) == Len(a) <= Len(b) /\ SubSeq(b, 1, Len(a)) = a

\* the names main() cleans: of the catalog and of the reference data
SourceNames ==
    {all_parts[k].name : k \in 1..Len(all_parts)}
    \cup Range(reference.diodes) \cup Range(reference.ics)
    \cup UNION {Range(reference.transistors[t]) : t \in DOMAIN reference.transistors}

\* what is left of some name once text is cut from its end
StartOfSomeName(label) == \E name \in SourceNames : IsPrefix(label, name)

\* C26: the cleaners of diode, transistor and IC names only cut text from the
\* end of a name: every cleaned name is the unchanged start of the name it
\* was made from
C26_CleanersStripSuffixesOnly ==
    /\ Past("diodes") => \A k \in 1..Len(diode_labels) : StartOfSomeName(diode_labels[k])
    /\ Past("transistors") =>
           \A t \in 1..Len(trans_by_type) :
               \A k \in 1..Len(trans_by_type[t].parts) :
                   StartOfSomeName(trans_by_type[t].parts[k])
    /\ Past("ics") => \A k \in 1..Len(ic_labels) : StartOfSomeName(ic_labels[k])

(***************************************************************************)
(* generate_labels: the halves of a label record                           *)
(***************************************************************************)

\* C27: in every label record the bottom drawer id is empty exactly when the
\* bottom label is empty, and the top drawer id and the top label are never
\* empty: whatever is printed has a drawer id next to it
C27_BottomIdIffBottomLabel ==
    \A k \in 1..Len(labels) :
        /\ (labels[k].Bin_Bottom = EmptyStr) <=> (labels[k].Label_Bottom = EmptyStr)
        /\ labels[k].Bin_Top # EmptyStr
        /\ labels[k].Label_Top # EmptyStr

(***************************************************************************)
(* generate_labels: the ids issued and the ids printed                     *)
(***************************************************************************)

\* the halves of the sheet that carry a drawer id
PrintedAs(id) ==
    {<<k, half>> \in (1..Len(labels)) \X {"Bin_Top", "Bin_Bottom"} : labels[k][half] = id}

\* C28: every drawer id the allocator has issued is the Bin_Top or the
\* Bin_Bottom of exactly one label record, so the ids printed for a family
\* are those from 1 to counter-1 with none skipped
C28_EveryIssuedIdPrinted ==
    \A f \in Families :
        /\ \A e \in Range(issued[f]) : Cardinality(PrintedAs(e.id)) = 1
        /\ \A n \in 1..(CounterOf(f) - 1) : PrintedAs(DrawerId(f, n)) # {}

(***************************************************************************)
(* update_missing_locations: the parts a pass sets the location of         *)
(***************************************************************************)

\* the parts whose default location a step changes
Repatched == {k \in 1..Len(server_parts) : server_parts'[k] # server_parts[k]}

\* C29: a step of the matching loop sets the default location only of a part
\* that has none yet: no part is given a location twice in one pass, whatever
\* the order of the components
C29_LocationSetOncePerPass ==
    [][(pc = "matching" /\ pc' = "matching")
           => \A k \in Repatched : server_parts[k].default_location = EmptyStr]_vars

(***************************************************************************)
(* move_stock_to_locations: main() over a catalog and its stock items.     *)
(* A location of None is written 0.  Any request may raise.                *)
(***************************************************************************)

MaxPasses == 2        \* runs of the stock mover, one right after the other

notMover == <<allocVars, mainVars, all_parts, reference, resistors, resistor_groups,
              capacitors, cap_groups, diode_labels, diode_groups, trans_by_type,
              trans_groups, ic_labels, ic_groups, all_pots_values, pot_groups, parsed,
              locVars, first_run, storeVars>>

\* GET /api/part/ with active=True, then the parts with a default_location
get_all_parts_with_default_locations(server) ==
    SelectSeq(server, LAMBDA p : p.active /\ p.default_location # 0)

\* GET /api/stock/ with part=part_id: the positions of the items on the server
get_stock_items_for_part(part_id) ==
    {k \in 1..Len(stock_items) : stock_items[k].part = part_id}

\* PATCH /api/stock/{stock_id}/ with location, for the items at these positions
move_stock_item(moved, new_location_id) ==
    [k \in 1..Len(stock_items) |->
        IF k \in moved THEN [stock_items[k] EXCEPT !.location = new_location_id]
        ELSE stock_items[k]]

\* main() up to the loop: the parts are fetched and the counters are reset
FindParts ==
    /\ mover_pc \in {"idle", "done"}
    /\ pass_log.no < MaxPasses
    /\ \E raised \in BOOLEAN :
          IF raised
          THEN /\ mover_pc' = "aborted"
               /\ pass_log' = [pass_log EXCEPT !.no = @ + 1, !.failed = TRUE]
               /\ UNCHANGED <<mover_parts, part_no, moved_count, already_correct, mover_errors>>
          ELSE /\ mover_pc' = "moving"
               /\ mover_parts' = get_all_parts_with_default_locations(catalog)
               /\ part_no' = 1
               /\ moved_count' = 0
               /\ already_correct' = 0
               /\ mover_errors' = 0
               /\ pass_log' = [no |-> pass_log.no + 1, failed |-> FALSE,
                               before |-> stock_items, patched |-> {},
                               after_clean |-> mover_pc = "done" /\ ~pass_log.failed]
    /\ UNCHANGED <<catalog, stock_items, notMover>>

\* one pass of "for part in parts": the stock items of the part are fetched
\* (a failure here ends the run) and each one not at the default location is
\* moved inside its own try block
MovePart ==
    /\ mover_pc = "moving"
    /\ part_no <= Len(mover_parts)
    /\ \E raised \in BOOLEAN :
          IF raised
          THEN /\ mover_pc' = "aborted"
               /\ pass_log' = [pass_log EXCEPT !.failed = TRUE]
               /\ UNCHANGED <<stock_items, part_no, moved_count, already_correct, mover_errors>>
          ELSE LET default_location == mover_parts[part_no].default_location
                   items == get_stock_items_for_part(mover_parts[part_no].pk)
                   misplaced == {k \in items : stock_items[k].location # default_location}
               IN  \E failing \in SUBSET misplaced :
                      /\ stock_items' = move_stock_item(misplaced \ failing, default_location)
                      /\ moved_count' = moved_count + Cardinality(misplaced \ failing)
                      /\ mover_errors' = mover_errors + Cardinality(failing)
                      /\ already_correct' = already_correct + Cardinality(items \ misplaced)
                      /\ pass_log' =
                             [pass_log EXCEPT
                                 !.failed = @ \/ failing # {},
                                 !.patched = @ \cup {stock_items[k].pk : k \in misplaced \ failing}]
                      /\ part_no' = part_no + 1
                      /\ UNCHANGED mover_pc
    /\ UNCHANGED <<catalog, mover_parts, notMover>>

\* the end of the loop: the counts are printed
FinishMover ==
    /\ mover_pc = "moving"
    /\ part_no > Len(mover_parts)
    /\ mover_pc' = "done"
    /\ UNCHANGED <<catalog, stock_items, mover_parts, part_no, moved_count, already_correct,
                   mover_errors, pass_log, notMover>>

CatalogPart(pk, name, active, default_location) ==
    [pk |-> pk, name |-> name, active |-> active, default_location |-> default_location]

\* two parts: with and without a default location, in use or retired
MoverCatalogs ==
    { <<CatalogPart(1, "10K Resistor", TRUE, 5), CatalogPart(2, "TL072", TRUE, 0)>>,
      <<CatalogPart(1, "10K Resistor", TRUE, 5), CatalogPart(2, "TL072", TRUE, 6)>>,
      <<CatalogPart(1, "10K Resistor", TRUE, 5), CatalogPart(2, "OC44", FALSE, 6)>> }

\* two items of the first part and one of the second, each at no location or
\* at one of two locations
StockLists ==
    { <<[pk |-> 1, part |-> 1, location |-> a], [pk |-> 2, part |-> 1, location |-> b],
        [pk |-> 3, part |-> 2, location |-> c]>> : a \in {0, 5, 6}, b \in {0, 5}, c \in {0, 5, 6} }
    \cup {<<>>}

InitMover ==
    /\ LabelGeneratorInit
    /\ MainIdle
    /\ NoPartsRead
    /\ UpdatersIdle
    /\ StoreIdle
    /\ catalog \in MoverCatalogs
    /\ stock_items \in StockLists
    /\ mover_parts = <<>>
    /\ part_no = 1
    /\ moved_count = 0
    /\ already_correct = 0
    /\ mover_errors = 0
    /\ mover_pc = "idle"
    /\ pass_log = NoPass

NextMover == FindParts \/ MovePart \/ FinishMover

SpecMover == InitMover /\ [][NextMover]_vars

\* the default location of the part of a stock item, 0 for none
DefaultOf(item) ==
    (CHOOSE p \in Range(catalog) : p.pk = item.part).default_location

\* the stock items that are not where their part belongs
Misplaced(items) ==
    {item \in Range(items) : DefaultOf(item) # 0 /\ item.location # DefaultOf(item)}

\* C30: a run in which no request fails patches exactly the stock items that
\* were not at the default location of their part, leaves every stock item of
\* every part with a default location at that location, and, when it follows
\* such a run at once, moves nothing
C30_MoverReachesDefaults ==
    (mover_pc = "done" /\ ~pass_log.failed) =>
        /\ pass_log.patched = {item.pk : item \in Misplaced(pass_log.before)}
        /\ Misplaced(stock_items) = {}
        /\ pass_log.after_clean => moved_count = 0

====
